---------------------------- MODULE Spec2Model ----------------------------
(***************************************************************************)
(* Agent-process supervisor and permission protocol of coder_bot.          *)
(*                                                                         *)
(* One session object of either backend is modelled:                       *)
(*   - ClaudeProcess (src/src/claude.ts): a child process driven over      *)
(*     stdin/stdout with line-delimited JSON, a read loop (readMessages)   *)
(*     and a consumer loop (consumeMessages) joined by a Stream;           *)
(*   - CodexProcess (src/src/codex.ts): an MCP client with a notification  *)
(*     handler, an elicitation handler and tool calls per turn.            *)
(*                                                                         *)
(* Event-loop granularity: a caller operation or a process event is one    *)
(* macrotask and runs with all promise continuations it makes runnable     *)
(* (the write of a control response after approvePermission, the catch     *)
(* block after an abort).  The read loop and the consumer loop advance by  *)
(* separate steps; a caller operation runs only when neither can advance   *)
(* (Quiescent), because Node drains the microtask queue before the next    *)
(* macrotask.  The relative order of reader and consumer steps within one  *)
(* drain is left nondeterministic.                                         *)
(***************************************************************************)
EXTENDS Naturals, Integers, Sequences, FiniteSets, TLC

(* ------------------------------ bounds -------------------------------- *)

\* capability requests the subprocess issues in one run
MaxReq == 2
\* lines buffered by readline and not yet taken by the read loop
MaxBuf == 1
\* distinct session identifiers the subprocess reports
MaxSid == 1
\* loop-detected notifications followed in one run
MaxLoops == 2
\* tool calls (turns) issued on the RPC backend in one run
MaxCalls == 2
\* error-kind output events counted (the counter saturates here)
MaxOut == 2
\* content messages held by the Stream between the two loops
MaxQueue == 1
\* blocks in one content list given to send()
MaxBlocks == 2
\* distinct identifier values the server may report
MaxIdVal == 2
\* content items in one call response
MaxItems == 1
\* distinct callback sets a caller hands to start()
MaxCb == 2
\* words in one command line given to the policy
MaxWords == 4
\* chats that talk to the bridge
MaxChats == 2
\* process objects the bridge constructs in one run
MaxProcs == 2
MaxMajor == 1
MaxPatch == 2
MaxAlpha == 6

(* ------------------------- program constants -------------------------- *)

MAX_TOOL_ERROR_RETRIES == 20

ReqIds == 1..MaxReq
CallIds == 1..MaxCalls

(* --------------------------- policy engine ---------------------------- *)

SAFE_TOOLS ==
    {"Read", "read", "Glob", "glob", "Grep", "grep", "Task", "task",
     "TaskCreate", "TaskUpdate", "TaskList", "TaskGet",
     "WebSearch", "WebFetch", "EnterPlanMode", "ExitPlanMode",
     "mcp__ide__getDiagnostics"}

\* A command is a sequence of words; the raw text is the words joined by
\* single blanks, with no leading blank.
FirstWordTakesArgs == {"rm", "sudo", "chmod", "chown", "dd", "kill", "killall", "pkill"}
FirstWordPrefix == {"mkfs", "shutdown", "reboot"}

\* /^\s*rm\s/ and its like need white space after the first word; /^\s*mkfs/
\* and its like need only the first word.  The unanchored patterns are
\* looked for at every position.
DangerousAt(cmd, i) ==
    \/ cmd[i] = "|" /\ i < Len(cmd) /\ cmd[i + 1] \in {"sh", "bash"}
    \/ cmd[i] = ">" /\ i < Len(cmd) /\ cmd[i + 1] \in {"/dev/null", "/dev/sda"}
    \/ cmd[i] = "git" /\ i + 1 < Len(cmd) /\ cmd[i + 1] = "push"
         /\ \E j \in (i + 2)..Len(cmd) : cmd[j] = "--force"
    \/ cmd[i] = "git" /\ i + 1 < Len(cmd) /\ cmd[i + 1] = "reset" /\ cmd[i + 2] = "--hard"
    \/ cmd[i] \in {"npm", "yarn"} /\ i < Len(cmd) /\ cmd[i + 1] = "publish"

DANGEROUS_BASH_PATTERNS(cmd) ==
    \/ Len(cmd) >= 2 /\ cmd[1] \in FirstWordTakesArgs
    \/ Len(cmd) >= 1 /\ cmd[1] \in FirstWordPrefix
    \/ Len(cmd) >= 2 /\ cmd[1] = "mv" /\ cmd[Len(cmd)] = "/"
    \/ \E i \in 1..Len(cmd) : DangerousAt(cmd, i)

\* An input is absent (undefined/null or another falsy value), the empty
\* object, an object with at least one key, or a truthy value that is no
\* object; command is the value of its command key (<<>> when the key is
\* missing or blank), and commandIsString is false when that value is truthy
\* and no string (a number, an array, an object).
NoInput == [kind |-> "absent", command |-> <<>>, commandIsString |-> TRUE]
EmptyInput == [kind |-> "empty", command |-> <<>>, commandIsString |-> TRUE]
ObjInput == [kind |-> "object", command |-> <<>>, commandIsString |-> TRUE]
CmdInput(cmd) == [kind |-> "object", command |-> cmd, commandIsString |-> TRUE]
ValueInput == [kind |-> "value", command |-> <<>>, commandIsString |-> TRUE]
NonStringCmdInput == [kind |-> "object", command |-> <<>>, commandIsString |-> FALSE]

\* command.trim() of shouldAutoApprove is no function: a TypeError is thrown
shouldAutoApproveThrows(toolName, input) ==
    /\ input.kind \notin {"absent", "empty"}
    /\ toolName \notin SAFE_TOOLS
    /\ toolName \in {"Bash", "bash"}
    /\ ~input.commandIsString

\* the decision when shouldAutoApprove returns
shouldAutoApprove(toolName, input) ==
    IF input.kind \in {"absent", "empty"} THEN FALSE
    ELSE IF toolName \in SAFE_TOOLS THEN TRUE
    ELSE IF toolName \in {"Bash", "bash"}
         THEN IF input.command = <<>> THEN FALSE
              ELSE ~DANGEROUS_BASH_PATTERNS(input.command)
    ELSE FALSE

\* The capability requests the subprocess is let to make.
Payloads ==
    { [tool |-> "Read", input |-> ObjInput],
      [tool |-> "Bash", input |-> CmdInput(<<"rm", "-rf", "node_modules">>)],
      [tool |-> "AskUserQuestion", input |-> ObjInput] }

\* The names and inputs the policy is asked about.
ToolNames == SAFE_TOOLS \cup {"Bash", "bash", "Write", "Edit", "AskUserQuestion", "unknown"}

Words == {"ls", "x", "&&", ";", "rm", "sudo", "shutdown"}

Commands == UNION {[1..n -> Words] : n \in 0..MaxWords}

Inputs ==
    {NoInput, EmptyInput, ObjInput, ValueInput, NonStringCmdInput}
    \cup {CmdInput(cmd) : cmd \in Commands}

(* ------------------------------- state -------------------------------- *)

VARIABLES
    backend,                \* "claude" | "codex": which class the session object is
    permissionMode,         \* this.config.permissionMode
    alive,                  \* this.alive
    onMessage,              \* this.onMessage, set together with onPermissionRequest and
                            \* onLoopDetected (0 = null, else the set start() was given)
    autoApproveAll,         \* this.autoApproveAll
    sessionId,              \* this.sessionId (0 = null)
    pendingPermissions,     \* keys of this.pendingPermissions
    reqInfo,                \* request id -> [tool, input] of the request received
    cont,                   \* request id -> state of the promise of its decision
    frames,                 \* request id -> responses written for it, in order
    notified,               \* request ids handed to onPermissionRequest
    lastOp,                 \* the caller operation of the last step and its result
    outErr,                 \* error-kind events handed to onMessage
    nextId,                 \* next request id the subprocess assigns
    userFrames,             \* user content frames written to stdin
    \* ---- history of the run (read by the properties only)
    allowWindow,            \* approveAll was called and the turn has not ended since
    arrivedInWindow,        \* requests the subprocess issued while allowWindow
    killCalled,             \* kill() was called since the last start()
    \* ---- ClaudeProcess
    child,                  \* the child process
    killed,                 \* child.killed
    stdout,                 \* lines readline holds for the read loop
    reader,                 \* readMessages: [pc, on]
    inputStream,            \* Stream: [queue, isDone, hasError, started]
    consumer,               \* consumeMessages
    cancelControllers,      \* keys of this.cancelControllers
    cancelSent,             \* ids whose control_cancel_request was emitted while parked
    consecutiveToolErrors,
    interrupts,             \* interrupt control requests written to stdin
    loopNotifs,             \* calls of onLoopDetected
    pendingControlResponses,
    \* ---- CodexProcess
    conversationId,         \* this.conversationId (0 = null)
    client,                 \* this.client # null
    connected,              \* this.connected
    transport,              \* the MCP server process and its connection
    calls,                  \* call id -> [state, kind, sid, cid] of a callTool
    turnAbortController,    \* this.turnAbortController (0 = null, else the call it was made for)
    disconnecting,          \* disconnectAsync awaits client.close()
    \* ---- Bridge
    sessions,               \* this.sessions: chat -> process object of its session (0 = no entry)
    procs                   \* process object -> its fields, for the objects the Bridge made

sharedVars == <<backend, permissionMode, alive, onMessage, autoApproveAll, sessionId, pendingPermissions, reqInfo,
                cont, frames, notified, lastOp, outErr, nextId, userFrames>>
claudeVars == <<child, killed, stdout, reader, inputStream, consumer, cancelControllers,
                cancelSent, consecutiveToolErrors, interrupts, loopNotifs,
                pendingControlResponses>>
codexVars == <<conversationId, client, connected, transport, calls, turnAbortController,
               disconnecting>>
historyVars == <<allowWindow, arrivedInWindow, killCalled>>
bridgeVars == <<sessions, procs>>
vars == <<sharedVars, historyVars, claudeVars, codexVars, bridgeVars>>
permVars == <<pendingPermissions, reqInfo, cont, frames, notified>>
sessionVarsButOp ==
    <<backend, permissionMode, alive, onMessage, autoApproveAll, sessionId, pendingPermissions, reqInfo, cont,
      frames, notified, outErr, nextId, userFrames, claudeVars, codexVars>>
varsButOp ==
    <<backend, permissionMode, alive, onMessage, autoApproveAll, sessionId, pendingPermissions, reqInfo, cont,
      frames, notified, outErr, nextId, userFrames, claudeVars, codexVars, bridgeVars>>

NoOp == [op |-> "none", id |-> 0, ok |-> FALSE, n |-> 0, msg |-> <<>>]
Op(name, id, ok, n) == [op |-> name, id |-> id, ok |-> ok, n |-> n, msg |-> <<>>]
\* a call with its argument or returned value, a handler with the message it got
OpMsg(name, id, ok, msg) == [op |-> name, id |-> id, ok |-> ok, n |-> 0, msg |-> msg]
NoPayload == [tool |-> "", input |-> NoInput]
NoCall == [state |-> "none", kind |-> "", sid |-> 0, cid |-> 0, prompt |-> <<>>,
           policy |-> "", sandbox |-> ""]
Line(type, id, p, sid) == [type |-> type, id |-> id, p |-> p, sid |-> sid]
\* A user message with its content: a string, or an array of blocks, of
\* which some are tool results.  The types "user_error" and "user_ok" stand
\* for a user message whose array content is, or is not, all-error.
StringTurn == [kind |-> "string", blocks |-> <<>>]
ArrayTurn(bs) == [kind |-> "array", blocks |-> bs]
ToolResult(isError) == [type |-> "tool_result", is_error |-> isError]
OtherBlock == [type |-> "text", is_error |-> FALSE]
UserLine(content) ==
    [type |-> "user", id |-> 0, p |-> NoPayload, sid |-> 0, content |-> content]
Idle == [pc |-> "reading", on |-> 0]
Chats == 1..MaxChats
Procs == 1..MaxProcs
\* the fields of a ClaudeProcess the Bridge has not constructed yet, and the
\* pendingQuestion of its ChatSession (0 for null, else the request id)
NoProc == [made |-> FALSE, alive |-> FALSE, pendingPermissions |-> {},
           autoApproveAll |-> FALSE, consecutiveToolErrors |-> 0, sessionId |-> 0,
           pendingQuestion |-> 0]

\* Every field of a new session object but its configuration.
InitSession ==
    /\ backend \in {"claude", "codex"}
    /\ alive = FALSE
    /\ onMessage = 0
    /\ autoApproveAll = FALSE
    /\ sessionId = 0
    /\ pendingPermissions = {}
    /\ reqInfo = [r \in ReqIds |-> NoPayload]
    /\ cont = [r \in ReqIds |-> "none"]
    /\ frames = [r \in ReqIds |-> <<>>]
    /\ notified = {}
    /\ lastOp = NoOp
    /\ outErr = 0
    /\ nextId = 1
    /\ userFrames = 0
    /\ allowWindow = FALSE
    /\ arrivedInWindow = {}
    /\ killCalled = FALSE
    /\ child = "none"
    /\ killed = FALSE
    /\ stdout = <<>>
    /\ reader = [pc |-> "none", on |-> 0]
    /\ inputStream = [queue |-> <<>>, isDone |-> FALSE, hasError |-> FALSE, started |-> FALSE]
    /\ consumer = "none"
    /\ cancelControllers = {}
    /\ cancelSent = {}
    /\ consecutiveToolErrors = 0
    /\ interrupts = 0
    /\ loopNotifs = 0
    /\ pendingControlResponses = {}
    /\ conversationId = 0
    /\ client = FALSE
    /\ connected = FALSE
    /\ transport = "none"
    /\ calls = [c \in CallIds |-> NoCall]
    /\ turnAbortController = 0
    /\ disconnecting = FALSE
    /\ sessions = [c \in Chats |-> 0]
    /\ procs = [p \in Procs |-> NoProc]

\* loadConfig: the permission mode is 'default' unless the environment sets it
Init == InitSession /\ permissionMode = "default"

(* --------------------------- event loop ------------------------------- *)

\* The read loop has a line to take, or the end of the stream to see.
ReaderCanStep == reader.pc = "reading" /\ (stdout # <<>> \/ child = "exited")
\* The consumer loop has a message to take, or the end of the Stream to see.
ConsumerCanStep == consumer = "running" /\ (inputStream.queue # <<>> \/ inputStream.isDone)
\* No promise continuation is runnable: the next macrotask may start.
Quiescent == ~ReaderCanStep /\ ~ConsumerCanStep

(* ======================= ClaudeProcess (claude.ts) ==================== *)

childStdin == child # "none"

\* Requests of S whose decision promise is parked: the abort listener of
\* resolvePermission is registered for exactly these.
Parked(S) == {r \in S : cont[r] = "waiting"}

\* controller.abort() for every id of S: the listener deletes the entry and
\* rejects; handleControlRequest's catch writes the error response and its
\* finally deletes the controller; readMessages resumes after its await.
ContAfterAbort(S) == [r \in ReqIds |-> IF r \in Parked(S) THEN "cancelled" ELSE cont[r]]
\* the catch of handleControlRequest writing nothing
FramesAfterAbortSilent(S) == frames

FramesAfterAbort(S) ==
    [r \in ReqIds |-> IF r \in Parked(S) THEN Append(frames[r], "error") ELSE frames[r]]
ReaderAfterAbort(S) ==
    IF reader.pc = "blocked" /\ reader.on \in Parked(S) THEN Idle ELSE reader

cleanupControllers ==
    /\ cont' = ContAfterAbort(cancelControllers)
    /\ frames' = FramesAfterAbort(cancelControllers)
    /\ cancelControllers' = {}

\* start(): spawn the child, register its handlers, start both loops.  The
\* session object is started once after construction (Bridge.createSession
\* makes a new object per session); a call while alive returns at once.
\* start() assigning the callbacks before its check of alive
callbacksAlwaysSet(cb) == cb

\* this.onMessage after start(cb): `if (this.alive) return;` comes first
callbacksAfterStart(cb) == IF alive THEN onMessage ELSE cb

Claude_start(spawned, cb) ==
    /\ backend = "claude"
    /\ Quiescent
    /\ lastOp' = Op("start", cb, TRUE, 0)
    /\ onMessage' = callbacksAfterStart(cb)
    /\ IF alive
       THEN UNCHANGED <<alive, child, reader, inputStream, consumer>>
       ELSE /\ child = "none"
            /\ child' = spawned
            /\ alive' = TRUE
            /\ reader' = Idle
            /\ consumer' = IF inputStream.started THEN "failed" ELSE "running"
            /\ inputStream' = [inputStream EXCEPT !.started = TRUE]
    /\ UNCHANGED <<bridgeVars, permissionMode, backend, autoApproveAll, sessionId, pendingPermissions, reqInfo, cont,
                   frames, notified, outErr, nextId, userFrames>>
    /\ UNCHANGED <<killed, stdout, cancelControllers, cancelSent, consecutiveToolErrors,
                   interrupts, loopNotifs, pendingControlResponses>>
    /\ UNCHANGED codexVars
    /\ UNCHANGED <<allowWindow, arrivedInWindow>>
    /\ killCalled' = IF alive THEN killCalled ELSE FALSE

\* start() on a session object that was killed, once its subprocess has
\* exited and its read loop has finished: a new subprocess and a new read
\* loop over the same Stream object.  The new consumeMessages() throws
\* 'Stream can only be iterated once' into its own catch, so the consumer
\* loop stays as the first run left it.
Claude_restart(cb) ==
    /\ backend = "claude"
    /\ Quiescent
    /\ ~alive
    /\ child = "exited"
    /\ reader.pc = "done"
    /\ inputStream.started
    /\ onMessage' = cb
    /\ child' = "running"
    /\ killed' = FALSE
    /\ alive' = TRUE
    /\ reader' = Idle
    /\ lastOp' = Op("start", cb, TRUE, 0)
    /\ UNCHANGED <<bridgeVars, permissionMode, backend, autoApproveAll, sessionId, pendingPermissions, reqInfo, cont,
                   frames, notified, outErr, nextId, userFrames>>
    /\ UNCHANGED <<stdout, inputStream, consumer, cancelControllers, cancelSent,
                   consecutiveToolErrors, interrupts, loopNotifs, pendingControlResponses>>
    /\ UNCHANGED codexVars
    /\ UNCHANGED <<allowWindow, arrivedInWindow>>
    /\ killCalled' = FALSE

(* ---- the subprocess writes a line to its stdout ---- *)

\* content.filter((b) => b.type === 'tool_result')
toolResults(blocks) == SelectSeq(blocks, LAMBDA b : b.type = "tool_result")

\* a tool-result turn counted as failed as soon as one result is an error
hasToolErrorSome(blocks) ==
    \E i \in 1..Len(toolResults(blocks)) : toolResults(blocks)[i].is_error

\* toolResults.length > 0 && toolResults.every((b) => b.is_error === true)
hasToolError(blocks) ==
    /\ toolResults(blocks) # <<>>
    /\ \A i \in 1..Len(toolResults(blocks)) : toolResults(blocks)[i].is_error

\* msg.type === 'user' && Array.isArray(msg.message?.content)
isToolTurn(msg) ==
    \/ msg.type \in {"user_error", "user_ok"}
    \/ msg.type = "user" /\ msg.content.kind = "array"

isAllError(msg) ==
    \/ msg.type = "user_error"
    \/ msg.type = "user" /\ msg.content.kind = "array" /\ hasToolError(msg.content.blocks)

CanEmit ==
    /\ backend = "claude"
    /\ child \in {"running", "terminating"}
    /\ reader.pc \in {"reading", "blocked"}
    /\ Len(stdout) < MaxBuf

EmitFrame ==
    UNCHANGED <<bridgeVars, permissionMode, backend, onMessage, alive, autoApproveAll, sessionId, pendingPermissions, reqInfo, cont,
                frames, notified, outErr, userFrames, child, killed, reader, inputStream,
                consumer, cancelControllers, consecutiveToolErrors, interrupts, loopNotifs,
                pendingControlResponses>>

\* a control_request of subtype can_use_tool, with a fresh request id
EmitRequest(p) ==
    /\ CanEmit
    /\ nextId <= MaxReq
    /\ stdout' = Append(stdout, Line("control_request", nextId, p, 0))
    /\ nextId' = nextId + 1
    /\ lastOp' = NoOp
    /\ UNCHANGED cancelSent
    /\ EmitFrame
    /\ UNCHANGED codexVars
    /\ arrivedInWindow' = IF allowWindow THEN arrivedInWindow \cup {nextId} ELSE arrivedInWindow
    /\ UNCHANGED <<allowWindow, killCalled>>

\* a control_cancel_request for a request it has had no response to
EmitCancel(r) ==
    /\ CanEmit
    /\ r < nextId
    /\ frames[r] = <<>>
    /\ r \notin cancelSent
    /\ stdout' = Append(stdout, Line("control_cancel_request", r, NoPayload, 0))
    /\ cancelSent' = cancelSent \cup {r}
    /\ lastOp' = NoOp
    /\ UNCHANGED nextId
    /\ EmitFrame
    /\ UNCHANGED codexVars
    /\ UNCHANGED historyVars

\* a content frame (system, assistant, user, result) or a line that is no JSON
EmitLine(l) ==
    /\ CanEmit
    /\ isAllError(l) => loopNotifs < MaxLoops
    /\ l.type = "control_response" => l.id <= interrupts
    /\ stdout' = Append(stdout, l)
    /\ lastOp' = NoOp
    /\ UNCHANGED <<nextId, cancelSent>>
    /\ EmitFrame
    /\ UNCHANGED codexVars
    /\ allowWindow' = IF l.type = "result" THEN FALSE ELSE allowWindow
    /\ UNCHANGED <<arrivedInWindow, killCalled>>

(* ---- readMessages: one line per step ---- *)

\* resolvePermission with the approve-all flag applied to every tool
resolvePermissionAnyTool(toolName, input) ==
    IF shouldAutoApproveThrows(toolName, input) THEN "throws"
    ELSE IF shouldAutoApprove(toolName, input) THEN "allowPolicy"
    ELSE IF autoApproveAll THEN "allowFlag"
    ELSE "park"

\* resolvePermission's choice for a request: allowed by the policy, allowed
\* by the approve-all flag, or parked for the caller; or the exception of
\* shouldAutoApprove, which it lets through.
resolvePermission(toolName, input) ==
    IF shouldAutoApproveThrows(toolName, input) THEN "throws"
    ELSE IF shouldAutoApprove(toolName, input) THEN "allowPolicy"
    ELSE IF autoApproveAll /\ toolName # "AskUserQuestion" THEN "allowFlag"
    ELSE "park"

\* a result message was emitted and is not yet taken by the consumer loop
ResultUnread ==
    \/ \E i \in 1..Len(stdout) : stdout[i].type = "result"
    \/ \E i \in 1..Len(inputStream.queue) : inputStream.queue[i].type = "result"

CanRead == backend = "claude" /\ reader.pc = "reading" /\ stdout # <<>>

\* control_request / can_use_tool: handleControlRequest, awaited by the loop
Claude_handleControlRequest ==
    /\ CanRead
    /\ Head(stdout).type = "control_request"
    /\ childStdin
    /\ LET r == Head(stdout).id
           p == Head(stdout).p
           how == resolvePermission(p.tool, p.input)
       IN /\ reqInfo' = [reqInfo EXCEPT ![r] = p]
          /\ IF how = "park"
             THEN /\ cont' = [cont EXCEPT ![r] = "waiting"]
                  /\ pendingPermissions' = pendingPermissions \cup {r}
                  /\ cancelControllers' = cancelControllers \cup {r}
                  /\ notified' = notified \cup {r}
                  /\ reader' = [pc |-> "blocked", on |-> r]
                  /\ UNCHANGED frames
             ELSE /\ cont' = [cont EXCEPT ![r] = how]
                  /\ frames' = [frames EXCEPT ![r] =
                                    Append(@, IF how = "throws" THEN "error" ELSE "allow")]
                  /\ UNCHANGED <<pendingPermissions, cancelControllers, notified, reader>>
    /\ stdout' = Tail(stdout)
    /\ lastOp' = NoOp
    /\ UNCHANGED <<bridgeVars, permissionMode, backend, onMessage, alive, autoApproveAll, sessionId, outErr, nextId, userFrames>>
    /\ UNCHANGED <<child, killed, inputStream, consumer, cancelSent, consecutiveToolErrors,
                   interrupts, loopNotifs, pendingControlResponses>>
    /\ UNCHANGED codexVars
    /\ UNCHANGED historyVars

\* control_cancel_request: handleControlCancelRequest
Claude_handleControlCancelRequest ==
    /\ CanRead
    /\ Head(stdout).type = "control_cancel_request"
    /\ LET S == {Head(stdout).id} \cap cancelControllers
       IN /\ cont' = ContAfterAbort(S)
          /\ frames' = FramesAfterAbort(S)
          /\ pendingPermissions' = pendingPermissions \ Parked(S)
          /\ cancelControllers' = cancelControllers \ S
    /\ stdout' = Tail(stdout)
    /\ lastOp' = NoOp
    /\ UNCHANGED <<bridgeVars, permissionMode, backend, onMessage, alive, autoApproveAll, sessionId, reqInfo, notified, outErr,
                   nextId, userFrames>>
    /\ UNCHANGED <<child, killed, reader, inputStream, consumer, cancelSent,
                   consecutiveToolErrors, interrupts, loopNotifs, pendingControlResponses>>
    /\ UNCHANGED codexVars
    /\ UNCHANGED historyVars

\* control_response: the handler of a request this side issued
Claude_readControlResponse ==
    /\ CanRead
    /\ Head(stdout).type = "control_response"
    /\ pendingControlResponses' = pendingControlResponses \ {Head(stdout).id}
    /\ stdout' = Tail(stdout)
    /\ lastOp' = NoOp
    /\ UNCHANGED <<bridgeVars, permissionMode, backend, onMessage, alive, autoApproveAll, sessionId, outErr, nextId, userFrames>>
    /\ UNCHANGED permVars
    /\ UNCHANGED <<child, killed, reader, inputStream, consumer, cancelControllers, cancelSent,
                   consecutiveToolErrors, interrupts, loopNotifs>>
    /\ UNCHANGED codexVars
    /\ UNCHANGED historyVars

\* any other JSON line: inputStream.enqueue
Claude_enqueue ==
    /\ CanRead
    /\ Head(stdout).type \in {"system", "assistant", "user", "user_error", "user_ok", "result"}
    /\ Len(inputStream.queue) < MaxQueue
    /\ inputStream' = [inputStream EXCEPT !.queue = Append(@, Head(stdout))]
    /\ stdout' = Tail(stdout)
    /\ lastOp' = NoOp
    /\ UNCHANGED <<bridgeVars, permissionMode, backend, onMessage, alive, autoApproveAll, sessionId, outErr, nextId, userFrames>>
    /\ UNCHANGED permVars
    /\ UNCHANGED <<child, killed, reader, consumer, cancelControllers, cancelSent,
                   consecutiveToolErrors, interrupts, loopNotifs, pendingControlResponses>>
    /\ UNCHANGED codexVars
    /\ UNCHANGED historyVars

\* a line that is no JSON: dropped in the inner catch
Claude_dropMalformed ==
    /\ CanRead
    /\ Head(stdout).type = "malformed"
    /\ stdout' = Tail(stdout)
    /\ lastOp' = NoOp
    /\ UNCHANGED <<bridgeVars, permissionMode, backend, onMessage, alive, autoApproveAll, sessionId, outErr, nextId, userFrames>>
    /\ UNCHANGED permVars
    /\ UNCHANGED <<child, killed, reader, inputStream, consumer, cancelControllers, cancelSent,
                   consecutiveToolErrors, interrupts, loopNotifs, pendingControlResponses>>
    /\ UNCHANGED codexVars
    /\ UNCHANGED historyVars

\* end of stdout and the exit promise resolved: the finally block
Claude_readerFinally ==
    /\ backend = "claude"
    /\ reader.pc = "reading"
    /\ stdout = <<>>
    /\ child = "exited"
    /\ inputStream' = [inputStream EXCEPT !.isDone = TRUE]
    /\ cleanupControllers
    /\ pendingPermissions' = pendingPermissions \ Parked(cancelControllers)
    /\ reader' = [pc |-> "done", on |-> 0]
    /\ lastOp' = NoOp
    /\ UNCHANGED <<bridgeVars, permissionMode, backend, onMessage, alive, autoApproveAll, sessionId, reqInfo, notified, outErr,
                   nextId, userFrames>>
    /\ UNCHANGED <<child, killed, stdout, consumer, cancelSent, consecutiveToolErrors,
                   interrupts, loopNotifs, pendingControlResponses>>
    /\ UNCHANGED codexVars
    /\ UNCHANGED historyVars

(* ---- consumeMessages: one message per step ---- *)

\* sendInterrupt() writes an interrupt control request unless the process is gone
sendInterruptWrites == childStdin /\ alive

\* the counter without the reset at detection
consecutiveAfterNoReset(msg, loop) ==
    IF isAllError(msg) THEN consecutiveToolErrors + 1
    ELSE IF isToolTurn(msg) \/ msg.type = "result" THEN 0
    ELSE consecutiveToolErrors

\* the counter after a message: reset on detection, on a turn without an
\* all-error tool result and on a result; one more on an all-error turn
consecutiveAfter(msg, loop) ==
    IF isAllError(msg) /\ ~loop THEN consecutiveToolErrors + 1
    ELSE IF isToolTurn(msg) \/ msg.type = "result" THEN 0
    ELSE consecutiveToolErrors

\* Whether consumeMessages hands the message to onMessage: the message that
\* trips the loop detector is skipped by its `continue`.
forwarded(msg) ==
    /\ ~(isAllError(msg) /\ consecutiveToolErrors + 1 >= MAX_TOOL_ERROR_RETRIES)
    /\ onMessage # 0

Claude_consume ==
    /\ backend = "claude"
    /\ consumer = "running"
    /\ inputStream.queue # <<>>
    /\ LET msg == Head(inputStream.queue)
           loop == /\ isAllError(msg)
                   /\ consecutiveToolErrors + 1 >= MAX_TOOL_ERROR_RETRIES
       IN /\ sessionId' = IF msg.type = "system" /\ msg.sid # 0 THEN msg.sid ELSE sessionId
          /\ consecutiveToolErrors' = consecutiveAfter(msg, loop)
          /\ IF loop /\ sendInterruptWrites
             THEN /\ interrupts' = interrupts + 1
                  /\ pendingControlResponses' = pendingControlResponses \cup {interrupts + 1}
             ELSE UNCHANGED <<interrupts, pendingControlResponses>>
          /\ loopNotifs' = IF loop THEN loopNotifs + 1 ELSE loopNotifs
          /\ autoApproveAll' = IF msg.type = "result" THEN FALSE ELSE autoApproveAll
    /\ inputStream' = [inputStream EXCEPT !.queue = Tail(@)]
    /\ lastOp' = OpMsg("consume", 0, forwarded(Head(inputStream.queue)), Head(inputStream.queue))
    /\ UNCHANGED <<bridgeVars, permissionMode, backend, onMessage, alive, outErr, nextId, userFrames>>
    /\ UNCHANGED permVars
    /\ UNCHANGED <<child, killed, stdout, reader, consumer, cancelControllers, cancelSent>>
    /\ UNCHANGED codexVars
    /\ UNCHANGED historyVars

\* next() on an empty Stream that is done: the for-await loop ends
Claude_consumerEnd ==
    /\ backend = "claude"
    /\ consumer = "running"
    /\ inputStream.queue = <<>>
    /\ inputStream.isDone
    /\ consumer' = "ended"
    /\ lastOp' = NoOp
    /\ UNCHANGED <<bridgeVars, permissionMode, backend, onMessage, alive, autoApproveAll, sessionId, outErr, nextId, userFrames>>
    /\ UNCHANGED permVars
    /\ UNCHANGED <<child, killed, stdout, reader, inputStream, cancelControllers, cancelSent,
                   consecutiveToolErrors, interrupts, loopNotifs, pendingControlResponses>>
    /\ UNCHANGED codexVars
    /\ UNCHANGED historyVars

(* ---- events of the child process ---- *)

\* 'error' (the spawn failed)
Claude_onError ==
    /\ backend = "claude"
    /\ child = "spawnfail"
    /\ Quiescent
    /\ child' = "failed"
    /\ alive' = FALSE
    /\ inputStream' = [inputStream EXCEPT !.hasError = TRUE]
    /\ consumer' = IF consumer = "running" /\ inputStream.queue = <<>> /\ ~inputStream.isDone
                   THEN "failed" ELSE consumer
    /\ lastOp' = NoOp
    /\ UNCHANGED <<bridgeVars, permissionMode, backend, onMessage, autoApproveAll, sessionId, outErr, nextId, userFrames>>
    /\ UNCHANGED permVars
    /\ UNCHANGED <<killed, stdout, reader, cancelControllers, cancelSent,
                   consecutiveToolErrors, interrupts, loopNotifs, pendingControlResponses>>
    /\ UNCHANGED codexVars
    /\ UNCHANGED historyVars

\* 'close' (the process exited, by itself or after kill, and its pipes closed)
Claude_onClose ==
    /\ backend = "claude"
    /\ child \in {"running", "terminating", "failed"}
    /\ Quiescent
    /\ child' = "exited"
    /\ alive' = FALSE
    /\ pendingPermissions' = {}
    /\ cleanupControllers
    /\ reader' = ReaderAfterAbort(cancelControllers)
    /\ lastOp' = NoOp
    /\ UNCHANGED <<bridgeVars, permissionMode, backend, onMessage, autoApproveAll, sessionId, reqInfo, notified, outErr, nextId,
                   userFrames>>
    /\ UNCHANGED <<killed, stdout, inputStream, consumer, cancelSent, consecutiveToolErrors,
                   interrupts, loopNotifs, pendingControlResponses>>
    /\ UNCHANGED codexVars
(* ---- the caller's operations ---- *)
    /\ UNCHANGED historyVars

\* the promise of r resolves with a decision: handleControlRequest writes
\* the success response, deletes the controller, and readMessages resumes
ContAfterResolve(S, how) == [r \in ReqIds |-> IF r \in S THEN how ELSE cont[r]]
FramesAfterResolve(S, what) ==
    [r \in ReqIds |-> IF r \in S THEN Append(frames[r], what) ELSE frames[r]]
ReaderAfterResolve(S) ==
    IF reader.pc = "blocked" /\ reader.on \in S THEN Idle ELSE reader

\* the first key only
PendingSnapshotFirst ==
    {r \in pendingPermissions : \A q \in pendingPermissions : r <= q}

\* [...this.pendingPermissions.keys()] of approveAll / denyAll
PendingSnapshot == pendingPermissions

\* the registry with the resolved entries left in place
Claude_deleteNothing(S) == pendingPermissions

\* this.pendingPermissions.delete(requestId) of approvePermission/denyPermission

Claude_deleteResolved(S) == pendingPermissions \ S

\* the controllers of the resolved requests left registered
Claude_keepController(S) == cancelControllers

\* this.cancelControllers.delete(requestId) in handleControlRequest's finally,
\* run when the decision promise of each request of S settles
Claude_deleteController(S) == cancelControllers \ S

Claude_send ==
    /\ backend = "claude"
    /\ Quiescent
    /\ userFrames < MaxCalls
    /\ IF ~childStdin \/ ~alive
       THEN /\ lastOp' = Op("send", 0, FALSE, 0)
            /\ UNCHANGED userFrames
       ELSE /\ lastOp' = Op("send", 0, TRUE, 0)
            /\ userFrames' = userFrames + 1
    /\ UNCHANGED <<bridgeVars, permissionMode, backend, onMessage, alive, autoApproveAll, sessionId, outErr, nextId>>
    /\ UNCHANGED permVars
    /\ UNCHANGED claudeVars
    /\ UNCHANGED codexVars
    /\ UNCHANGED historyVars

Claude_resolveOne(r, how, what, opname) ==
    /\ backend = "claude"
    /\ Quiescent
    /\ IF r \in pendingPermissions
       THEN /\ cont' = ContAfterResolve({r}, how)
            /\ frames' = FramesAfterResolve({r}, what)
            /\ pendingPermissions' = Claude_deleteResolved({r})
            /\ cancelControllers' = Claude_deleteController({r})
            /\ reader' = ReaderAfterResolve({r})
            /\ lastOp' = Op(opname, r, TRUE, 0)
       ELSE /\ lastOp' = Op(opname, r, FALSE, 0)
            /\ UNCHANGED <<cont, frames, pendingPermissions, cancelControllers, reader>>
    /\ UNCHANGED <<bridgeVars, permissionMode, backend, onMessage, alive, autoApproveAll, sessionId, reqInfo, notified, outErr,
                   nextId, userFrames>>
    /\ UNCHANGED <<child, killed, stdout, inputStream, consumer, cancelSent,
                   consecutiveToolErrors, interrupts, loopNotifs, pendingControlResponses>>
    /\ UNCHANGED codexVars
    /\ UNCHANGED historyVars

Claude_approvePermission(r) == Claude_resolveOne(r, "allow", "allow", "approve")

Claude_denyPermission(r) == Claude_resolveOne(r, "deny", "deny", "deny")

Claude_resolveAll(how, what, opname, flag) ==
    /\ backend = "claude"
    /\ Quiescent
    /\ autoApproveAll' = flag
    /\ cont' = ContAfterResolve(PendingSnapshot, how)
    /\ frames' = FramesAfterResolve(PendingSnapshot, what)
    /\ pendingPermissions' = Claude_deleteResolved(PendingSnapshot)
    /\ cancelControllers' = Claude_deleteController(PendingSnapshot)
    /\ reader' = ReaderAfterResolve(PendingSnapshot)
    /\ lastOp' = Op(opname, 0, TRUE, Cardinality(PendingSnapshot))
    /\ UNCHANGED <<bridgeVars, permissionMode, backend, onMessage, alive, sessionId, reqInfo, notified, outErr, nextId, userFrames>>
    /\ UNCHANGED <<child, killed, stdout, inputStream, consumer, cancelSent,
                   consecutiveToolErrors, interrupts, loopNotifs, pendingControlResponses>>
    /\ UNCHANGED codexVars
    /\ allowWindow' = IF opname = "approveAll" /\ ~ResultUnread THEN TRUE ELSE allowWindow
    /\ UNCHANGED <<arrivedInWindow, killCalled>>

Claude_approveAll == Claude_resolveAll("allow", "allow", "approveAll", TRUE)

Claude_denyAll == Claude_resolveAll("deny", "deny", "denyAll", autoApproveAll)

Claude_kill ==
    /\ backend = "claude"
    /\ Quiescent
    /\ IF child = "running" /\ ~killed
       THEN child' = "terminating" /\ killed' = TRUE
       ELSE UNCHANGED <<child, killed>>
    /\ alive' = FALSE
    /\ pendingPermissions' = {}
    /\ cleanupControllers
    /\ reader' = ReaderAfterAbort(cancelControllers)
    /\ lastOp' = Op("kill", 0, TRUE, Cardinality(pendingPermissions))
    /\ UNCHANGED <<bridgeVars, permissionMode, backend, onMessage, autoApproveAll, sessionId, reqInfo, notified, outErr, nextId,
                   userFrames>>
    /\ UNCHANGED <<stdout, inputStream, consumer, cancelSent, consecutiveToolErrors,
                   interrupts, loopNotifs, pendingControlResponses>>
    /\ UNCHANGED codexVars
    /\ UNCHANGED <<allowWindow, arrivedInWindow>>
    /\ killCalled' = TRUE

(* ======================== CodexProcess (codex.ts) ===================== *)

Bump(n) == IF n < MaxOut THEN n + 1 ELSE n
BumpBy(n, k) == IF n + k < MaxOut THEN n + k ELSE MaxOut

InFlight == {c \in CallIds : calls[c].state = "inflight"}

\* A call response or an event carries identifiers in up to three places;
\* 0 stands for a missing or empty field.
NoIds == [sid |-> 0, cid |-> 0]
Response(meta, top, items) == [meta |-> meta, top |-> top, items |-> items]

\* updateIdentifiers(event): the event itself, then its data object
updateIdentifiers(ids, event) ==
    LET one(cur, c) == [sid |-> IF c.sid # 0 THEN c.sid ELSE cur.sid,
                        cid |-> IF c.cid # 0 THEN c.cid ELSE cur.cid]
    IN one(one(ids, event.top), event.data)

\* extractIdentifiers(response): meta, else the top level; then the content
\* items, each only while the identifier is still unset
RECURSIVE FromItems(_, _)
FromItems(ids, items) ==
    IF items = <<>> THEN ids
    ELSE FromItems([sid |-> IF ids.sid = 0 /\ Head(items).sid # 0
                            THEN Head(items).sid ELSE ids.sid,
                    cid |-> IF ids.cid = 0 /\ Head(items).cid # 0
                            THEN Head(items).cid ELSE ids.cid],
                   Tail(items))

\* a variant that lets the content items overwrite what meta or top gave
extractIdentifiersItemsLast(ids, response) ==
    LET sid1 == IF response.meta.sid # 0 THEN response.meta.sid
                ELSE IF response.top.sid # 0 THEN response.top.sid ELSE ids.sid
        cid1 == IF response.meta.cid # 0 THEN response.meta.cid
                ELSE IF response.top.cid # 0 THEN response.top.cid ELSE ids.cid
    IN FromItems([sid |-> 0, cid |-> 0],
                 response.items \o <<[sid |-> sid1, cid |-> cid1]>>)

extractIdentifiers(ids, response) ==
    LET sid1 == IF response.meta.sid # 0 THEN response.meta.sid
                ELSE IF response.top.sid # 0 THEN response.top.sid ELSE ids.sid
        cid1 == IF response.meta.cid # 0 THEN response.meta.cid
                ELSE IF response.top.cid # 0 THEN response.top.cid ELSE ids.cid
    IN FromItems([sid |-> sid1, cid |-> cid1], response.items)

CurIds == [sid |-> sessionId, cid |-> conversationId]

\* the modes of the table, and one that is none of them
PermissionModes ==
    {"default", "read-only", "safe-yolo", "yolo", "bypassPermissions", "acceptEdits", "plan",
     "other"}

resolveApprovalPolicy(mode) ==
    CASE mode = "default" -> "untrusted"
      [] mode = "read-only" -> "never"
      [] mode = "safe-yolo" -> "on-failure"
      [] mode = "yolo" -> "on-failure"
      [] mode = "bypassPermissions" -> "on-failure"
      [] mode = "acceptEdits" -> "on-request"
      [] mode = "plan" -> "untrusted"
      [] OTHER -> "untrusted"

\* the sandbox with no case for yolo
resolveSandboxModeNoYolo(mode) ==
    CASE mode = "read-only" -> "read-only"
      [] mode = "bypassPermissions" -> "danger-full-access"
      [] OTHER -> "workspace-write"

resolveSandboxMode(mode) ==
    CASE mode = "read-only" -> "read-only"
      [] mode = "yolo" -> "danger-full-access"
      [] mode = "bypassPermissions" -> "danger-full-access"
      [] OTHER -> "workspace-write"

\* start(): alive at once, connectAsync up to its await of client.connect
Codex_start(cb) ==
    /\ backend = "codex"
    /\ lastOp' = Op("start", cb, TRUE, 0)
    /\ onMessage' = callbacksAfterStart(cb)
    /\ IF alive
       THEN UNCHANGED <<alive, client, transport>>
       ELSE /\ transport = "none"
            /\ alive' = TRUE
            /\ client' = TRUE
            /\ transport' = "connecting"
    /\ UNCHANGED <<bridgeVars, permissionMode, backend, autoApproveAll, sessionId, outErr, nextId, userFrames>>
    /\ UNCHANGED permVars
    /\ UNCHANGED claudeVars
    /\ UNCHANGED <<conversationId, connected, calls, turnAbortController, disconnecting>>
    /\ UNCHANGED <<allowWindow, arrivedInWindow>>
    /\ killCalled' = IF alive THEN killCalled ELSE FALSE

\* client.connect resolves
Codex_connected ==
    /\ backend = "codex"
    /\ transport = "connecting"
    /\ transport' = "up"
    /\ connected' = TRUE
    /\ lastOp' = NoOp
    /\ UNCHANGED <<bridgeVars, permissionMode, backend, onMessage, alive, autoApproveAll, sessionId, outErr, nextId, userFrames>>
    /\ UNCHANGED permVars
    /\ UNCHANGED claudeVars
    /\ UNCHANGED <<conversationId, client, calls, turnAbortController, disconnecting>>
    /\ UNCHANGED historyVars

\* client.connect rejects: the catch of start()
Codex_connectFailed ==
    /\ backend = "codex"
    /\ transport = "connecting"
    /\ transport' = "closed"
    /\ alive' = FALSE
    /\ outErr' = Bump(outErr)
    /\ lastOp' = NoOp
    /\ UNCHANGED <<bridgeVars, permissionMode, backend, onMessage, autoApproveAll, sessionId, nextId, userFrames>>
    /\ UNCHANGED permVars
    /\ UNCHANGED claudeVars
    /\ UNCHANGED <<conversationId, client, connected, calls, turnAbortController,
                   disconnecting>>
    /\ UNCHANGED historyVars

\* The content of send(): a string, or a list of text and image blocks.
\* A text is a sequence of characters.
StringContent(t) == [kind |-> "string", text |-> t, blocks |-> <<>>]
BlockContent(bs) == [kind |-> "blocks", text |-> <<>>, blocks |-> bs]
TextBlock(t) == [type |-> "text", text |-> t]
ImageBlock == [type |-> "image", text |-> <<>>]

\* content.filter(b => b.type === 'text')
textParts(blocks) == SelectSeq(blocks, LAMBDA b : b.type = "text")

\* textParts.map(b => b.text).join('\n')
RECURSIVE join(_)
join(parts) ==
    IF parts = <<>> THEN <<>>
    ELSE IF Len(parts) = 1 THEN parts[1].text
    ELSE parts[1].text \o <<"\n">> \o join(Tail(parts))

\* the text send() extracts from its argument
extractText(content) ==
    IF content.kind = "string" THEN content.text ELSE join(textParts(content.blocks))

\* send(content) and sendAsync up to its await of callTool
Codex_send(content) ==
    /\ backend = "codex"
    /\ \E c \in CallIds : calls[c].state = "none"
    /\ LET c == CHOOSE k \in CallIds :
                   calls[k].state = "none" /\ \A j \in CallIds : j < k => calls[j].state # "none"
           kind == IF sessionId = 0 THEN "start" ELSE "reply"
           text == extractText(content)
           call == [state |-> IF transport = "up" THEN "inflight" ELSE "failed",
                    kind |-> kind,
                    sid |-> sessionId,
                    cid |-> IF conversationId # 0 THEN conversationId ELSE sessionId,
                    prompt |-> text,
                    policy |-> IF kind = "start" THEN resolveApprovalPolicy(permissionMode)
                               ELSE "",
                    sandbox |-> IF kind = "start" THEN resolveSandboxMode(permissionMode)
                                ELSE ""]
       IN IF ~alive
          THEN /\ lastOp' = OpMsg("send", 0, FALSE, content)
               /\ UNCHANGED <<outErr, calls, turnAbortController>>
          ELSE /\ lastOp' = OpMsg("send", 0, TRUE, content)
               /\ IF (content.kind = "blocks" /\ text = <<>>) \/ ~client \/ ~connected
                  THEN /\ outErr' = Bump(outErr)
                       /\ UNCHANGED <<calls, turnAbortController>>
                  ELSE /\ calls' = [calls EXCEPT ![c] = call]
                       /\ turnAbortController' = IF transport = "up" THEN c ELSE 0
                       /\ outErr' = IF transport = "up" THEN outErr ELSE Bump(outErr)
    /\ UNCHANGED <<bridgeVars, permissionMode, backend, onMessage, alive, autoApproveAll, sessionId, nextId, userFrames>>
    /\ UNCHANGED permVars
    /\ UNCHANGED claudeVars
    /\ UNCHANGED <<conversationId, client, connected, transport, disconnecting>>
    /\ UNCHANGED historyVars

\* callTool resolves: the rest of the try block and the finally
Codex_callReturned(c, response) ==
    /\ backend = "codex"
    /\ transport = "up"
    /\ calls[c].state = "inflight"
    /\ sessionId' = extractIdentifiers(CurIds, response).sid
    /\ conversationId' = extractIdentifiers(CurIds, response).cid
    /\ autoApproveAll' = FALSE
    /\ turnAbortController' = 0
    /\ calls' = [calls EXCEPT ![c].state = "returned"]
    /\ lastOp' = OpMsg("callReturned", c, TRUE, response)
    /\ UNCHANGED <<bridgeVars, permissionMode, backend, onMessage, alive, outErr, nextId, userFrames>>
    /\ UNCHANGED permVars
    /\ UNCHANGED claudeVars
    /\ UNCHANGED <<client, connected, transport, disconnecting>>
    /\ allowWindow' = FALSE
    /\ UNCHANGED <<arrivedInWindow, killCalled>>

\* callTool rejects with an error of the server: catch, rethrow, finally
Codex_callFailed(c) ==
    /\ backend = "codex"
    /\ transport = "up"
    /\ calls[c].state = "inflight"
    /\ outErr' = Bump(outErr)
    /\ turnAbortController' = 0
    /\ calls' = [calls EXCEPT ![c].state = "failed"]
    /\ lastOp' = NoOp
    /\ UNCHANGED <<bridgeVars, permissionMode, backend, onMessage, alive, autoApproveAll, sessionId, nextId, userFrames>>
    /\ UNCHANGED permVars
    /\ UNCHANGED claudeVars
    /\ UNCHANGED <<conversationId, client, connected, transport, disconnecting>>
    /\ allowWindow' = FALSE
    /\ UNCHANGED <<arrivedInWindow, killCalled>>

\* the server process exits by itself: the client rejects the calls in flight
Codex_serverExit ==
    /\ backend = "codex"
    /\ transport = "up"
    /\ ~disconnecting
    /\ transport' = "closed"
    /\ outErr' = BumpBy(outErr, Cardinality(InFlight))
    /\ turnAbortController' = IF InFlight # {} THEN 0 ELSE turnAbortController
    /\ calls' = [c \in CallIds |->
                    IF c \in InFlight THEN [calls[c] EXCEPT !.state = "failed"] ELSE calls[c]]
    /\ lastOp' = NoOp
    /\ UNCHANGED <<bridgeVars, permissionMode, backend, onMessage, alive, autoApproveAll, sessionId, nextId, userFrames>>
    /\ UNCHANGED permVars
    /\ UNCHANGED claudeVars
    /\ UNCHANGED <<conversationId, client, connected, disconnecting>>
    /\ allowWindow' = FALSE
    /\ UNCHANGED <<arrivedInWindow, killCalled>>

\* the codex/event notification handler
Codex_handleCodexEvent(event) ==
    /\ backend = "codex"
    /\ transport = "up"
    /\ sessionId' = updateIdentifiers(CurIds, event).sid
    /\ conversationId' = updateIdentifiers(CurIds, event).cid
    /\ autoApproveAll' = IF event.type \in {"task_complete", "turn_aborted"}
                         THEN FALSE ELSE autoApproveAll
    /\ outErr' = IF event.type = "turn_aborted" THEN Bump(outErr) ELSE outErr
    /\ lastOp' = OpMsg("event", 0, TRUE, event)
    /\ UNCHANGED <<bridgeVars, permissionMode, backend, onMessage, alive, nextId, userFrames>>
    /\ UNCHANGED permVars
    /\ UNCHANGED claudeVars
    /\ UNCHANGED <<client, connected, transport, calls, turnAbortController, disconnecting>>
    /\ allowWindow' = IF event.type \in {"task_complete", "turn_aborted"} THEN FALSE ELSE allowWindow
    /\ UNCHANGED <<arrivedInWindow, killCalled>>

\* the elicitation request handler
Codex_handleElicitRequest ==
    /\ backend = "codex"
    /\ transport = "up"
    /\ nextId <= MaxReq
    /\ LET r == nextId
       IN /\ reqInfo' = [reqInfo EXCEPT ![r] =
                            [tool |-> "CodexBash", input |-> CmdInput(<<"npm", "test">>)]]
          /\ IF autoApproveAll
             THEN /\ cont' = [cont EXCEPT ![r] = "allowFlag"]
                  /\ frames' = [frames EXCEPT ![r] = Append(@, "allow")]
                  /\ UNCHANGED <<pendingPermissions, notified>>
             ELSE /\ cont' = [cont EXCEPT ![r] = "waiting"]
                  /\ pendingPermissions' = pendingPermissions \cup {r}
                  /\ notified' = notified \cup {r}
                  /\ UNCHANGED frames
    /\ nextId' = nextId + 1
    /\ lastOp' = NoOp
    /\ UNCHANGED <<bridgeVars, permissionMode, backend, onMessage, alive, autoApproveAll, sessionId, outErr, userFrames>>
    /\ UNCHANGED claudeVars
    /\ UNCHANGED codexVars
    /\ arrivedInWindow' = IF allowWindow THEN arrivedInWindow \cup {nextId} ELSE arrivedInWindow
    /\ UNCHANGED <<allowWindow, killCalled>>

Codex_resolveOne(r, how, what, opname) ==
    /\ backend = "codex"
    /\ IF r \in pendingPermissions
       THEN /\ cont' = ContAfterResolve({r}, how)
            /\ frames' = FramesAfterResolve({r}, what)
            /\ pendingPermissions' = pendingPermissions \ {r}
            /\ lastOp' = Op(opname, r, TRUE, 0)
       ELSE /\ lastOp' = Op(opname, r, FALSE, 0)
            /\ UNCHANGED <<cont, frames, pendingPermissions>>
    /\ UNCHANGED <<bridgeVars, permissionMode, backend, onMessage, alive, autoApproveAll, sessionId, reqInfo, notified, outErr,
                   nextId, userFrames>>
    /\ UNCHANGED claudeVars
    /\ UNCHANGED codexVars
    /\ UNCHANGED historyVars

Codex_approvePermission(r) == Codex_resolveOne(r, "allow", "allow", "approve")

Codex_denyPermission(r) == Codex_resolveOne(r, "deny", "deny", "deny")

Codex_resolveAll(how, what, opname, flag) ==
    /\ backend = "codex"
    /\ autoApproveAll' = flag
    /\ cont' = ContAfterResolve(PendingSnapshot, how)
    /\ frames' = FramesAfterResolve(PendingSnapshot, what)
    /\ pendingPermissions' = pendingPermissions \ PendingSnapshot
    /\ lastOp' = Op(opname, 0, TRUE, Cardinality(PendingSnapshot))
    /\ UNCHANGED <<bridgeVars, permissionMode, backend, onMessage, alive, sessionId, reqInfo, notified, outErr, nextId, userFrames>>
    /\ UNCHANGED claudeVars
    /\ UNCHANGED codexVars
    /\ allowWindow' = IF opname = "approveAll" THEN TRUE ELSE allowWindow
    /\ UNCHANGED <<arrivedInWindow, killCalled>>

Codex_approveAll == Codex_resolveAll("allow", "allow", "approveAll", TRUE)

\* denyAll() that also ends the approve-all mode
Codex_denyAllClearsFlag == Codex_resolveAll("deny", "deny", "denyAll", FALSE)

Codex_denyAll == Codex_resolveAll("deny", "deny", "denyAll", autoApproveAll)

\* kill(): the abort reaches the call the current controller was made for
\* (its catch returns, its finally clears the controller); disconnectAsync
\* runs up to its await of client.close()
Codex_kill ==
    /\ backend = "codex"
    /\ alive' = FALSE
    /\ calls' = [c \in CallIds |->
                    IF c = turnAbortController /\ calls[c].state = "inflight"
                    THEN [calls[c] EXCEPT !.state = "aborted"] ELSE calls[c]]
    /\ turnAbortController' = 0
    /\ pendingPermissions' = {}
    /\ disconnecting' = (disconnecting \/ connected)
    /\ lastOp' = Op("kill", 0, TRUE, Cardinality(pendingPermissions))
    /\ UNCHANGED <<bridgeVars, permissionMode, backend, onMessage, autoApproveAll, sessionId, reqInfo, cont, frames, notified,
                   outErr, nextId, userFrames>>
    /\ UNCHANGED claudeVars
    /\ UNCHANGED <<conversationId, client, connected, transport>>
    /\ allowWindow' = FALSE
    /\ UNCHANGED arrivedInWindow
    /\ killCalled' = TRUE

\* client.close() resolves: the calls still in flight are rejected, then
\* the rest of disconnectAsync
Codex_disconnected ==
    /\ backend = "codex"
    /\ disconnecting
    /\ disconnecting' = FALSE
    /\ transport' = "closed"
    /\ connected' = FALSE
    /\ outErr' = BumpBy(outErr, Cardinality(InFlight))
    /\ turnAbortController' = IF InFlight # {} THEN 0 ELSE turnAbortController
    /\ calls' = [c \in CallIds |->
                    IF c \in InFlight THEN [calls[c] EXCEPT !.state = "failed"] ELSE calls[c]]
    /\ lastOp' = NoOp
    /\ UNCHANGED <<bridgeVars, permissionMode, backend, onMessage, alive, autoApproveAll, sessionId, nextId, userFrames>>
    /\ UNCHANGED permVars
    /\ UNCHANGED claudeVars
    /\ UNCHANGED <<conversationId, client>>
    /\ allowWindow' = FALSE
    /\ UNCHANGED <<arrivedInWindow, killCalled>>

(* ---- getPendingPermissions() of both classes ---- *)

\* the fields of interface PendingPermission
PendingPermissionFields == {"requestId", "toolName", "input", "createdAt"}

\* the object both classes keep in the registry: PendingPermission & { resolve }
StoredFields == PendingPermissionFields \cup {"resolve"}

\* ClaudeProcess: [...this.pendingPermissions.values()], the stored objects
Claude_getPendingPermissions ==
    /\ backend = "claude"
    /\ Quiescent
    /\ lastOp' = OpMsg("getPendingPermissions", 0, TRUE,
                       {[requestId |-> r, fields |-> StoredFields] : r \in pendingPermissions})
    /\ UNCHANGED <<bridgeVars, permissionMode, backend, onMessage, alive, autoApproveAll, sessionId, outErr, nextId, userFrames>>
    /\ UNCHANGED permVars
    /\ UNCHANGED claudeVars
    /\ UNCHANGED codexVars
    /\ UNCHANGED historyVars

\* CodexProcess: each stored object copied without its resolve
Codex_getPendingPermissions ==
    /\ backend = "codex"
    /\ lastOp' = OpMsg("getPendingPermissions", 0, TRUE,
                       {[requestId |-> r, fields |-> StoredFields \ {"resolve"}] :
                            r \in pendingPermissions})
    /\ UNCHANGED <<bridgeVars, permissionMode, backend, onMessage, alive, autoApproveAll, sessionId, outErr, nextId, userFrames>>
    /\ UNCHANGED permVars
    /\ UNCHANGED claudeVars
    /\ UNCHANGED codexVars
    /\ UNCHANGED historyVars

\* What the caller is let to send.
MainContents == {StringContent(<<"a">>), BlockContent(<<ImageBlock>>)}

\* What the server is let to answer and to report.
Responses ==
    {Response(NoIds, NoIds, <<>>)}
    \cup {Response([sid |-> a, cid |-> a], NoIds, <<>>) : a \in 1..MaxSid}
    \cup {Response(NoIds, NoIds, <<[sid |-> a, cid |-> 0]>>) : a \in 1..MaxSid}

Events ==
    {[type |-> t, top |-> NoIds, data |-> NoIds] :
        t \in {"agent_message", "task_complete", "turn_aborted"}}
    \cup {[type |-> "session_configured", top |-> [sid |-> a, cid |-> 0], data |-> NoIds] :
            a \in 1..MaxSid}

CodexNext ==
    \/ Codex_start(1)
    \/ Codex_connected
    \/ Codex_connectFailed
    \/ \E content \in MainContents : Codex_send(content)
    \/ \E c \in CallIds, response \in Responses : Codex_callReturned(c, response)
    \/ \E c \in CallIds : Codex_callFailed(c)
    \/ Codex_serverExit
    \/ \E event \in Events : Codex_handleCodexEvent(event)
    \/ Codex_handleElicitRequest
    \/ \E r \in ReqIds : Codex_approvePermission(r) \/ Codex_denyPermission(r)
    \/ Codex_approveAll
    \/ Codex_denyAll
    \/ Codex_kill
    \/ Codex_disconnected

(* --------------------------- specifications --------------------------- *)

MainLines ==
    {Line("system", 0, NoPayload, sid) : sid \in 1..MaxSid}
    \cup {Line("result", 0, NoPayload, 0), Line("malformed", 0, NoPayload, 0)}

ClaudeNext ==
    \/ \E spawned \in {"running", "spawnfail"} : Claude_start(spawned, 1)
    \/ \E p \in Payloads : EmitRequest(p)
    \/ \E r \in ReqIds : EmitCancel(r)
    \/ \E l \in MainLines : EmitLine(l)
    \/ Claude_handleControlRequest
    \/ Claude_handleControlCancelRequest
    \/ Claude_enqueue
    \/ Claude_dropMalformed
    \/ Claude_readerFinally
    \/ Claude_consume
    \/ Claude_consumerEnd
    \/ Claude_onError
    \/ Claude_onClose
    \/ Claude_send
    \/ \E r \in ReqIds : Claude_approvePermission(r) \/ Claude_denyPermission(r)
    \/ Claude_approveAll
    \/ Claude_denyAll
    \/ Claude_kill

Next == ClaudeNext \/ CodexNext

\* The loop detector: the subprocess reports tool results and turn ends,
\* and answers the interrupts it was sent.
LoopLines ==
    {Line("user_error", 0, NoPayload, 0), Line("user_ok", 0, NoPayload, 0),
     Line("result", 0, NoPayload, 0)}
    \cup {Line("control_response", k, NoPayload, 0) : k \in 1..MaxLoops}

InitLoop == Init /\ backend = "claude"

NextLoop ==
    \/ \E spawned \in {"running", "spawnfail"} : Claude_start(spawned, 1)
    \/ \E l \in LoopLines : EmitLine(l)
    \/ Claude_readControlResponse
    \/ Claude_enqueue
    \/ Claude_readerFinally
    \/ Claude_consume
    \/ Claude_consumerEnd
    \/ Claude_onError
    \/ Claude_onClose
    \/ Claude_kill

SpecLoop == InitLoop /\ [][NextLoop]_vars

\* The registry and its listing: requests arrive, the caller lists them and
\* resolves them one by one.
NextList ==
    \/ \E spawned \in {"running", "spawnfail"} : Claude_start(spawned, 1)
    \/ \E p \in Payloads : EmitRequest(p)
    \/ Claude_handleControlRequest
    \/ Claude_getPendingPermissions
    \/ \E r \in ReqIds : Claude_approvePermission(r) \/ Claude_denyPermission(r)
    \/ Codex_start(1)
    \/ Codex_connected
    \/ Codex_handleElicitRequest
    \/ Codex_getPendingPermissions
    \/ \E r \in ReqIds : Codex_approvePermission(r) \/ Codex_denyPermission(r)

SpecList == Init /\ [][NextList]_vars

\* send() on the RPC backend with every content up to MaxBlocks blocks.
Blocks == {TextBlock(<<>>), TextBlock(<<"a">>), ImageBlock}

BlockLists == UNION {[1..n -> Blocks] : n \in 0..MaxBlocks}

Contents ==
    {StringContent(<<>>), StringContent(<<"a">>)} \cup {BlockContent(bs) : bs \in BlockLists}

InitSend == Init /\ backend = "codex"

NextSend ==
    \/ Codex_start(1)
    \/ Codex_connected
    \/ Codex_connectFailed
    \/ \E content \in Contents : Codex_send(content)
    \/ \E c \in CallIds, response \in Responses : Codex_callReturned(c, response)
    \/ \E c \in CallIds : Codex_callFailed(c)
    \/ Codex_serverExit
    \/ Codex_kill
    \/ Codex_disconnected

SpecSend == InitSend /\ [][NextSend]_vars

\* The RPC backend with a server that reports any identifiers up to
\* MaxIdVal in any of the places the adapter looks at.
IdPairs ==
    {p \in [sid : 0..MaxIdVal, cid : 0..MaxIdVal] : p.cid \in {0, p.sid}}

ItemLists == UNION {[1..n -> IdPairs \ {NoIds}] : n \in 0..MaxItems}

RichResponses == {Response(m, t, is) : m \in IdPairs, t \in IdPairs, is \in ItemLists}

RichEvents ==
    {[type |-> "session_configured", top |-> p, data |-> q] : p \in IdPairs, q \in IdPairs}

NextIds ==
    \/ Codex_start(1)
    \/ Codex_connected
    \/ Codex_send(StringContent(<<"a">>))
    \/ \E c \in CallIds, response \in RichResponses : Codex_callReturned(c, response)
    \/ \E c \in CallIds : Codex_callFailed(c)
    \/ \E event \in RichEvents : Codex_handleCodexEvent(event)

SpecIds == InitSend /\ [][NextIds]_vars

(* ================== Bridge (src/unnamed/part_002) ==================== *)

\* The Bridge keeps one ChatSession per chat, each with a ClaudeProcess of
\* its own.  A process object is modelled by the fields its methods and
\* handlers assign (this.alive, this.pendingPermissions, this.autoApproveAll,
\* this.consecutiveToolErrors, this.sessionId).
SessionUntouched == UNCHANGED <<sessionVarsButOp, historyVars>>

\* createSession leaving the old session's process as it is
Bridge_closeNone(old) == procs

\* createSession: old.claude.kill() for the chat's previous session
Bridge_closeOld(old) ==
    IF old = 0 THEN procs
    ELSE [procs EXCEPT ![old].alive = FALSE, ![old].pendingPermissions = {}]

FreshProc == CHOOSE n \in Procs : ~procs[n].made /\ \A m \in Procs : m < n => procs[m].made

\* createSession(chatId) and this.sessions.set(chatId, session)
createSession(chat) ==
    /\ procs' = [Bridge_closeOld(sessions[chat]) EXCEPT
                    ![FreshProc] = [NoProc EXCEPT !.made = TRUE, !.alive = TRUE]]
    /\ sessions' = [sessions EXCEPT ![chat] = FreshProc]

NoLiveSession(chat) == sessions[chat] = 0 \/ ~procs[sessions[chat]].alive

\* the /new command
Bridge_new(chat) ==
    /\ \E n \in Procs : ~procs[n].made
    /\ createSession(chat)
    /\ lastOp' = Op("createSession", FreshProc, TRUE, chat)
    /\ SessionUntouched

\* handleMessage with a text: get or create the session; a recorded question
\* takes the text as its answer (resolveQuestion: the record is cleared and
\* approvePermission is called, whose result is dropped); else send
Bridge_handleMessage(chat) ==
    /\ IF NoLiveSession(chat)
       THEN /\ \E n \in Procs : ~procs[n].made
            /\ createSession(chat)
            /\ lastOp' = Op("handleMessage", FreshProc, TRUE, chat)
       ELSE IF procs[sessions[chat]].pendingQuestion # 0
       THEN /\ lastOp' = Op("resolveQuestion", sessions[chat],
                            procs[sessions[chat]].pendingQuestion
                                \in procs[sessions[chat]].pendingPermissions, chat)
            /\ procs' = [procs EXCEPT
                            ![sessions[chat]].pendingPermissions =
                                @ \ {procs[sessions[chat]].pendingQuestion},
                            ![sessions[chat]].pendingQuestion = 0]
            /\ UNCHANGED sessions
       ELSE /\ lastOp' = Op("handleMessage", sessions[chat], TRUE, chat)
            /\ UNCHANGED bridgeVars
    /\ SessionUntouched

\* /allow and /deny: the latest pending request of the chat's session
Bridge_handleOne(chat, opname) ==
    /\ IF NoLiveSession(chat) \/ procs[sessions[chat]].pendingPermissions = {}
       THEN /\ lastOp' = Op(opname, sessions[chat], FALSE, chat)
            /\ UNCHANGED procs
       ELSE /\ lastOp' = Op(opname, sessions[chat], TRUE, chat)
            /\ \E r \in procs[sessions[chat]].pendingPermissions :
                  /\ \A q \in procs[sessions[chat]].pendingPermissions : q <= r
                  /\ procs' = [procs EXCEPT ![sessions[chat]].pendingPermissions = @ \ {r}]
    /\ UNCHANGED sessions
    /\ SessionUntouched

\* /allow all
Bridge_handleAllowAll(chat) ==
    /\ IF NoLiveSession(chat)
       THEN /\ lastOp' = Op("handleAllowAll", sessions[chat], FALSE, chat)
            /\ UNCHANGED procs
       ELSE /\ lastOp' = Op("handleAllowAll", sessions[chat], TRUE, chat)
            /\ procs' = [procs EXCEPT ![sessions[chat]].pendingPermissions = {},
                                      ![sessions[chat]].autoApproveAll = TRUE]
    /\ UNCHANGED sessions
    /\ SessionUntouched

\* /deny all
Bridge_handleDenyAll(chat) ==
    /\ IF NoLiveSession(chat)
       THEN /\ lastOp' = Op("handleDenyAll", sessions[chat], FALSE, chat)
            /\ UNCHANGED procs
       ELSE /\ lastOp' = Op("handleDenyAll", sessions[chat], TRUE, chat)
            /\ procs' = [procs EXCEPT ![sessions[chat]].pendingPermissions = {}]
    /\ UNCHANGED sessions
    /\ SessionUntouched

\* the subprocess of p asks an AskUserQuestion, which no policy and no flag
\* approves: the request is parked and handleAskUserQuestion approves it at
\* once when it carries no question, and records it otherwise
Proc_question(p, r, hasQuestions) ==
    /\ procs[p].alive
    /\ procs[p].pendingPermissions = {}
    /\ procs' = IF hasQuestions
                THEN [procs EXCEPT ![p].pendingPermissions = {r}, ![p].pendingQuestion = r]
                ELSE procs
    /\ lastOp' = Op("question", p, hasQuestions, r)
    /\ UNCHANGED sessions
    /\ SessionUntouched

\* the subprocess of p asks for a capability the policy does not allow
Proc_request(p, r) ==
    /\ procs[p].alive
    /\ procs[p].pendingPermissions = {}
    /\ procs' = IF procs[p].autoApproveAll THEN procs
                ELSE [procs EXCEPT ![p].pendingPermissions = {r}]
    /\ lastOp' = Op("request", p, TRUE, r)
    /\ UNCHANGED sessions
    /\ SessionUntouched

\* consumeMessages of p takes a message
Proc_message(p, msg) ==
    /\ procs[p].alive
    /\ LET loop == /\ msg.type = "user_error"
                   /\ procs[p].consecutiveToolErrors + 1 >= MAX_TOOL_ERROR_RETRIES
       IN /\ procs' = [procs EXCEPT
                ![p].sessionId = IF msg.type = "system" /\ msg.sid # 0 THEN msg.sid ELSE @,
                ![p].consecutiveToolErrors =
                    IF msg.type = "user_error" /\ ~loop THEN @ + 1
                    ELSE IF msg.type \in {"user_error", "user_ok", "result"} THEN 0
                    ELSE @,
                ![p].autoApproveAll = IF msg.type = "result" THEN FALSE ELSE @]
          /\ lastOp' = Op(IF loop THEN "loopDetected" ELSE "message", p, TRUE, 0)
    /\ UNCHANGED sessions
    /\ SessionUntouched

\* the child process of p exits: its 'close' handler
Proc_onClose(p) ==
    /\ procs[p].alive
    /\ procs' = [procs EXCEPT ![p].alive = FALSE, ![p].pendingPermissions = {}]
    /\ lastOp' = Op("close", p, TRUE, 0)
    /\ UNCHANGED sessions
    /\ SessionUntouched

BridgeLines ==
    {Line("system", 0, NoPayload, sid) : sid \in 1..MaxSid}
    \cup {Line("user_error", 0, NoPayload, 0), Line("result", 0, NoPayload, 0)}

NextBridge ==
    \/ \E chat \in Chats : Bridge_new(chat)
    \/ \E chat \in Chats : Bridge_handleMessage(chat)
    \/ \E chat \in Chats : Bridge_handleOne(chat, "handleAllow")
    \/ \E chat \in Chats : Bridge_handleOne(chat, "handleDeny")
    \/ \E chat \in Chats : Bridge_handleAllowAll(chat)
    \/ \E q \in Procs, r \in ReqIds : Proc_request(q, r)
    \/ \E q \in Procs, msg \in BridgeLines : Proc_message(q, msg)
    \/ \E q \in Procs : Proc_onClose(q)

SpecBridge == InitLoop /\ [][NextBridge]_vars

\* The chats' questions: the agent asks, and the user answers with a text or
\* with a command.
NextQuestion ==
    \/ \E chat \in Chats : Bridge_handleMessage(chat)
    \/ \E chat \in Chats : Bridge_handleOne(chat, "handleAllow")
    \/ \E chat \in Chats : Bridge_handleOne(chat, "handleDeny")
    \/ \E chat \in Chats : Bridge_handleAllowAll(chat)
    \/ \E chat \in Chats : Bridge_handleDenyAll(chat)
    \/ \E q \in Procs, r \in ReqIds, hasQuestions \in BOOLEAN : Proc_question(q, r, hasQuestions)
    \/ \E q \in Procs, r \in ReqIds : Proc_request(q, r)
    \/ \E q \in Procs : Proc_message(q, Line("result", 0, NoPayload, 0))

SpecQuestion == InitLoop /\ [][NextQuestion]_vars

\* The policy engine by itself: shouldAutoApprove applied once to a name and
\* an input; n = 1 records that it threw.
Apply_shouldAutoApprove(toolName, input) ==
    /\ lastOp' = [op |-> "shouldAutoApprove",
                  id |-> 0,
                  ok |-> ~shouldAutoApproveThrows(toolName, input)
                         /\ shouldAutoApprove(toolName, input),
                  n |-> IF shouldAutoApproveThrows(toolName, input) THEN 1 ELSE 0,
                  msg |-> [tool |-> toolName, input |-> input]]
    /\ UNCHANGED varsButOp
    /\ UNCHANGED historyVars

NextClassify ==
    /\ lastOp = NoOp
    /\ \E toolName \in ToolNames, input \in Inputs : Apply_shouldAutoApprove(toolName, input)

SpecClassify == InitLoop /\ [][NextClassify]_vars

\* The policy engine inside the request handler: requests of every kind of
\* name and input arrive and the caller decides the parked ones.
PolicyPayloads ==
    { [tool |-> "Read", input |-> ObjInput],
      [tool |-> "Read", input |-> EmptyInput],
      [tool |-> "Write", input |-> ObjInput],
      [tool |-> "Edit", input |-> ObjInput],
      [tool |-> "unknown", input |-> NoInput],
      [tool |-> "Bash", input |-> ObjInput],
      [tool |-> "Bash", input |-> ValueInput],
      [tool |-> "Bash", input |-> NonStringCmdInput],
      [tool |-> "Bash", input |-> CmdInput(<<"ls">>)] }

NextPolicy ==
    \/ \E spawned \in {"running", "spawnfail"} : Claude_start(spawned, 1)
    \/ \E p \in PolicyPayloads : EmitRequest(p)
    \/ Claude_handleControlRequest
    \/ \E r \in ReqIds : Claude_approvePermission(r) \/ Claude_denyPermission(r)

SpecPolicy == InitLoop /\ [][NextPolicy]_vars

\* The RPC backend under every permission mode of the configuration.
InitMode == InitSession /\ backend = "codex" /\ permissionMode \in PermissionModes

NextMode ==
    \/ Codex_start(1)
    \/ Codex_connected
    \/ \E content \in MainContents : Codex_send(content)
    \/ \E c \in CallIds, response \in Responses : Codex_callReturned(c, response)
    \/ \E c \in CallIds : Codex_callFailed(c)

SpecMode == InitMode /\ [][NextMode]_vars

\* start() called again, with other callbacks, on a session in use.
NextStart ==
    \/ \E spawned \in {"running", "spawnfail"}, cb \in 1..MaxCb : Claude_start(spawned, cb)
    \/ \E p \in Payloads : EmitRequest(p)
    \/ \E l \in MainLines : EmitLine(l)
    \/ Claude_handleControlRequest
    \/ Claude_enqueue
    \/ Claude_dropMalformed
    \/ Claude_consume
    \/ Claude_approveAll
    \/ Claude_onError
    \/ \E cb \in 1..MaxCb : Codex_start(cb)
    \/ Codex_connected
    \/ Codex_connectFailed
    \/ Codex_handleElicitRequest
    \/ Codex_approveAll
    \/ \E content \in MainContents : Codex_send(content)
    \/ \E c \in CallIds, response \in Responses : Codex_callReturned(c, response)

SpecStart == Init /\ [][NextStart]_vars

\* The consumer loop over user messages of every content: a string, or up to
\* MaxBlocks blocks of which each is a failed tool result, a successful one,
\* or something else.
TurnBlocks == {ToolResult(TRUE), ToolResult(FALSE), OtherBlock}

TurnLines ==
    {UserLine(ArrayTurn(bs)) : bs \in UNION {[1..n -> TurnBlocks] : n \in 0..MaxBlocks}}
    \cup {UserLine(StringTurn), Line("assistant", 0, NoPayload, 0),
          Line("result", 0, NoPayload, 0)}

NextTurns ==
    \/ Claude_start("running", 1)
    \/ \E l \in TurnLines : EmitLine(l)
    \/ Claude_enqueue
    \/ Claude_consume

SpecTurns == InitLoop /\ [][NextTurns]_vars

\* A session object that is killed and started again.
NextRestart ==
    \/ Claude_start("running", 1)
    \/ \E cb \in 1..MaxCb : Claude_restart(cb)
    \/ \E l \in MainLines : EmitLine(l)
    \/ \E p \in Payloads : EmitRequest(p)
    \/ Claude_handleControlRequest
    \/ Claude_enqueue
    \/ Claude_dropMalformed
    \/ Claude_consume
    \/ Claude_consumerEnd
    \/ Claude_readerFinally
    \/ Claude_onClose
    \/ Claude_kill

SpecRestart == InitLoop /\ [][NextRestart]_vars

\* The version probe of the RPC backend.  `codex --version` fails, prints
\* something the pattern does not match, or prints a version
\* major.minor.patch with or without an -alpha.N suffix.
THRESHOLD_MINOR == 43
THRESHOLD_ALPHA == 5
NoAlpha == -1

Version(major, minor, patch, alpha) ==
    [major |-> major, minor |-> minor, patch |-> patch, alpha |-> alpha]

Versions ==
    {Version(major, minor, patch, alpha) :
        major \in 0..MaxMajor,
        minor \in (THRESHOLD_MINOR - 1)..(THRESHOLD_MINOR + 1),
        patch \in 0..MaxPatch,
        alpha \in {NoAlpha} \cup 0..MaxAlpha}

ProbeOutputs ==
    {[kind |-> "version", version |-> v] : v \in Versions}
    \cup {[kind |-> k, version |-> Version(0, 0, 0, NoAlpha)] : k \in {"failed", "unmatched"}}

\* getCodexMcpSubcommand: the comparisons of the parsed numbers, in order
getCodexMcpSubcommand(out) ==
    IF out.kind # "version" THEN "mcp-server"
    ELSE IF out.version.major > 0 \/ out.version.minor > THRESHOLD_MINOR THEN "mcp-server"
    ELSE IF out.version.minor = THRESHOLD_MINOR /\ out.version.patch = 0
    THEN IF out.version.alpha # NoAlpha
         THEN IF out.version.alpha >= THRESHOLD_ALPHA THEN "mcp-server" ELSE "mcp"
         ELSE "mcp-server"
    ELSE "mcp"

Apply_getCodexMcpSubcommand(out) ==
    /\ lastOp' = OpMsg("getCodexMcpSubcommand", 0, getCodexMcpSubcommand(out) = "mcp-server", out)
    /\ UNCHANGED varsButOp
    /\ UNCHANGED historyVars

NextVersion ==
    /\ lastOp = NoOp
    /\ \E out \in ProbeOutputs : Apply_getCodexMcpSubcommand(out)

SpecVersion == InitSend /\ [][NextVersion]_vars

\* A session whose caller never decides: only the program's own steps and
\* the subprocess's output happen (no approve, deny, cancellation, kill or
\* exit).  Every ready handler of the event loop is eventually run.
NextWait ==
    \/ \E spawned \in {"running", "spawnfail"} : Claude_start(spawned, 1)
    \/ \E p \in Payloads : EmitRequest(p)
    \/ \E l \in MainLines : EmitLine(l)
    \/ Claude_handleControlRequest
    \/ Claude_enqueue
    \/ Claude_dropMalformed
    \/ Claude_consume
    \/ Codex_start(1)
    \/ Codex_connected
    \/ Codex_handleElicitRequest
    \/ \E content \in MainContents : Codex_send(content)
    \/ \E c \in CallIds, response \in Responses : Codex_callReturned(c, response)
    \/ \E event \in Events : Codex_handleCodexEvent(event)

SpecWait == Init /\ [][NextWait]_vars /\ WF_vars(NextWait)

Spec == Init /\ [][Next]_vars
(* ============================ properties ============================== *)

Allowed == {"allow", "allowFlag", "allowPolicy"}

\* C1: after kill() every request that was parked has had its continuation
\* completed (none is left waiting), and the pending registry and the
\* registry of cancellation tokens are empty.
C1_KillCancelsEveryPending ==
    lastOp.op = "kill" =>
        /\ \A r \in ReqIds : cont[r] # "waiting"
        /\ pendingPermissions = {}
        /\ cancelControllers = {}

\* C2: on the line-protocol backend, once the subprocess has sent the
\* cancellation frame of a request and the event loop has run, the request
\* is no longer pending.
C2_CancelReleasesParked ==
    backend = "claude" /\ Quiescent => \A r \in cancelSent : r \notin pendingPermissions

\* C3: approve/deny of a pending request returns true, resolves it with that
\* decision, removes it and emits one response; approve/deny of a request
\* that is not pending (a second resolution among them) returns false,
\* changes no state and emits nothing.
C3_Step ==
    lastOp'.op \in {"approve", "deny"} =>
        LET r == lastOp'.id
            decision == IF lastOp'.op = "approve" THEN "allow" ELSE "deny"
        IN IF r \in pendingPermissions
           THEN /\ lastOp'.ok
                /\ r \notin pendingPermissions'
                /\ cont'[r] = decision /\ cont[r] = "waiting"
                /\ frames'[r] = Append(frames[r], decision)
                /\ \A q \in ReqIds \ {r} : frames'[q] = frames[q] /\ cont'[q] = cont[q]
           ELSE /\ ~lastOp'.ok
                /\ UNCHANGED varsButOp

C3_ResolveTwice == [][C3_Step]_vars

\* a request resolved by a first call has just been resolved again: not found
C3_Witness ==
    /\ lastOp.op \in {"approve", "deny"}
    /\ ~lastOp.ok
    /\ lastOp.id \in ReqIds
    /\ cont[lastOp.id] \in {"allow", "deny"}
    /\ Len(frames[lastOp.id]) = 1

\* C4: a request the subprocess issues after approveAll() and before the turn
\* ends is, once received, allowed without notification and without entering
\* the registry when it is no question, and parked with a notification when
\* it is a question.
C4_ApproveAllCoversTheTurn ==
    \A r \in arrivedInWindow :
        cont[r] # "none" =>
            IF reqInfo[r].tool # "AskUserQuestion"
            THEN /\ cont[r] \in {"allowFlag", "allowPolicy"}
                 /\ r \notin notified
                 /\ r \notin pendingPermissions
            ELSE /\ cont[r] \in {"waiting", "allow", "deny", "cancelled"}
                 /\ r \in notified

C4_Witness ==
    \E r, q \in arrivedInWindow :
        /\ cont[r] = "allowFlag"
        /\ reqInfo[q].tool = "AskUserQuestion"
        /\ q \in pendingPermissions
        /\ q \in notified

\* C5: an AskUserQuestion request becomes allowed only by an approve
\* addressed to it: never by the policy, the approve-all flag or approveAll().
C5_QuestionNeedsItsOwnDecision ==
    [][\A r \in ReqIds :
          /\ reqInfo'[r].tool = "AskUserQuestion"
          /\ cont'[r] # cont[r]
          /\ cont'[r] \in Allowed
          => lastOp'.op = "approve" /\ lastOp'.id = r]_vars

\* C6: exactly the consumption of the 20th consecutive all-error tool-result
\* message writes one interrupt, notifies once and resets the counter; no
\* other step writes an interrupt or notifies.
C6_Step ==
    LET twentieth ==
            /\ inputStream.queue # <<>>
            /\ Head(inputStream.queue).type = "user_error"
            /\ consecutiveToolErrors = MAX_TOOL_ERROR_RETRIES - 1
            /\ inputStream'.queue = Tail(inputStream.queue)
    IN IF twentieth
       THEN /\ interrupts' = interrupts + 1
            /\ loopNotifs' = loopNotifs + 1
            /\ consecutiveToolErrors' = 0
       ELSE /\ interrupts' = interrupts
            /\ loopNotifs' = loopNotifs

C6_LoopDetection == [][C6_Step]_vars

\* C6 as amended: the consumption of the 20th consecutive all-error message
\* notifies once and resets the counter, and writes one interrupt exactly
\* when the session is alive with its input pipe; every other all-error
\* message adds one to the counter; no other step notifies or interrupts.
C6_AliveStep ==
    LET consumed ==
            /\ consumer = "running"
            /\ inputStream.queue # <<>>
            /\ inputStream'.queue = Tail(inputStream.queue)
        allError == consumed /\ Head(inputStream.queue).type = "user_error"
        twentieth == allError /\ consecutiveToolErrors = MAX_TOOL_ERROR_RETRIES - 1
    IN /\ consecutiveToolErrors < MAX_TOOL_ERROR_RETRIES
       /\ twentieth =>
              /\ loopNotifs' = loopNotifs + 1
              /\ consecutiveToolErrors' = 0
              /\ interrupts' = IF alive /\ childStdin THEN interrupts + 1 ELSE interrupts
       /\ ~twentieth => interrupts' = interrupts /\ loopNotifs' = loopNotifs
       /\ allError /\ ~twentieth => consecutiveToolErrors' = consecutiveToolErrors + 1

C6_LoopDetectionWhileAlive == [][C6_AliveStep]_vars

\* two detections, each with its interrupt, and one more all-error turn since
C6_Witness ==
    /\ alive
    /\ loopNotifs = 2
    /\ interrupts = 2
    /\ consecutiveToolErrors = 1

\* C7: on the line-protocol backend a request that was received has exactly
\* one response frame once it is decided or cancelled (the decision's frame,
\* or the error frame), and none while it is parked, in which case it is
\* still in the registry with its cancellation token; never two frames.
C7_OneResponsePerRequest ==
    backend = "claude" =>
        \A r \in ReqIds :
            /\ cont[r] = "none" => frames[r] = <<>>
            /\ cont[r] = "waiting" =>
                   frames[r] = <<>> /\ r \in pendingPermissions /\ r \in cancelControllers
            /\ cont[r] \in Allowed => frames[r] = <<"allow">>
            /\ cont[r] = "deny" => frames[r] = <<"deny">>
            /\ cont[r] = "cancelled" => frames[r] = <<"error">>

C7_Witness ==
    /\ backend = "claude"
    /\ \E r, q \in ReqIds :
          /\ cont[r] = "cancelled" /\ frames[r] = <<"error">>
          /\ cont[q] \in {"allow", "deny"} /\ Len(frames[q]) = 1

\* C8: when the subprocess exits by itself the session is no longer alive,
\* the registry is empty and no parked continuation is left waiting.
C8_Step ==
    (\/ backend = "claude" /\ child = "running" /\ child' = "exited"
     \/ backend = "codex" /\ alive /\ ~disconnecting
            /\ transport = "up" /\ transport' = "closed")
    => /\ ~alive'
       /\ pendingPermissions' = {}
       /\ \A r \in ReqIds : cont'[r] # "waiting"

C8_ExitCancelsPending == [][C8_Step]_vars

\* C9: a failed spawn, a failed connection and an exit of the subprocess by
\* itself each hand an error-kind event to onMessage.
C9_Step ==
    (\/ backend = "claude" /\ child = "spawnfail" /\ child' = "failed"
     \/ backend = "claude" /\ child = "running" /\ child' = "exited"
     \/ backend = "codex" /\ transport = "connecting" /\ transport' = "closed"
     \/ backend = "codex" /\ alive /\ ~disconnecting
            /\ transport = "up" /\ transport' = "closed")
    => (outErr' > outErr \/ outErr = MaxOut)

C9_FailureIsReported == [][C9_Step]_vars

\* C10: when kill() returns on the RPC backend no call of an earlier send()
\* is still awaiting its response.
C10_KillAbortsEveryCall ==
    backend = "codex" /\ lastOp.op = "kill" => InFlight = {}

\* every asynchronous step kill() started has finished
KillSettled ==
    /\ child # "terminating"
    /\ ~disconnecting
    /\ transport # "connecting"

\* C11: after kill(), called at any point of the lifecycle and any number of
\* times, and once the asynchronous work it started has finished, the
\* session is not alive and no subprocess or connection of it is running or
\* marked connected.
C11_KillTerminates ==
    killCalled /\ KillSettled =>
        /\ ~alive
        /\ child # "running"
        /\ transport # "up"
        /\ ~connected

\* C12: of the calls the sends of one session issue, exactly the first is a
\* start-conversation call; every later one is a continue-conversation call
\* that carries a session and a conversation identifier.
C12_OnlyFirstSendStarts ==
    backend = "codex" =>
        \A c \in CallIds :
            calls[c].state # "none" =>
                IF c = 1
                THEN calls[c].kind = "start"
                ELSE calls[c].kind = "reply" /\ calls[c].sid # 0 /\ calls[c].cid # 0

\* C13: the step that ends a turn leaves the approve-all flag cleared: the
\* consumption of a result message on the line backend; the return, the
\* failure or the abort of a turn's call on the RPC backend.
C13_Step ==
    (\/ /\ backend = "claude"
        /\ consumer = "running"
        /\ inputStream.queue # <<>>
        /\ Head(inputStream.queue).type = "result"
        /\ inputStream'.queue = Tail(inputStream.queue)
     \/ /\ backend = "codex"
        /\ \E c \in CallIds :
              /\ calls[c].state = "inflight"
              /\ calls'[c].state \in {"returned", "failed", "aborted"})
    => ~autoApproveAll'

C13_FlagIsTurnScoped == [][C13_Step]_vars

\* C14: approveAll() / denyAll() resolves every request that was pending at
\* the call exactly once with its decision, leaves the registry empty,
\* returns their number and touches no other request.
C14_Step ==
    lastOp'.op \in {"approveAll", "denyAll"} =>
        LET decision == IF lastOp'.op = "approveAll" THEN "allow" ELSE "deny"
        IN /\ pendingPermissions' = {}
           /\ lastOp'.n = Cardinality(pendingPermissions)
           /\ \A r \in pendingPermissions :
                 /\ cont[r] = "waiting"
                 /\ cont'[r] = decision
                 /\ frames'[r] = Append(frames[r], decision)
           /\ \A r \in ReqIds \ pendingPermissions :
                 cont'[r] = cont[r] /\ frames'[r] = frames[r]

C14_ResolveAllIsComplete == [][C14_Step]_vars

\* two requests were pending and one call resolved both
C14_Witness ==
    /\ lastOp.op \in {"approveAll", "denyAll"}
    /\ lastOp.n = 2
    /\ pendingPermissions = {}
    /\ \A r \in 1..2 : Len(frames[r]) = 1

\* C15: denyAll() leaves the approve-all flag, the session identifiers, the
\* liveness and the failure counter as they were.
C15_Step ==
    lastOp'.op = "denyAll" =>
        /\ autoApproveAll' = autoApproveAll
        /\ sessionId' = sessionId
        /\ conversationId' = conversationId
        /\ alive' = alive
        /\ consecutiveToolErrors' = consecutiveToolErrors

C15_DenyAllKeepsFlag == [][C15_Step]_vars

\* denyAll() has denied a request while the approve-all flag was set
C15_Witness ==
    /\ lastOp.op = "denyAll"
    /\ lastOp.n >= 1
    /\ autoApproveAll

\* C16: every element getPendingPermissions() returns is a pending request
\* and carries only identifier, action name, parameters and creation time.
C16_NoContinuationExposed ==
    lastOp.op = "getPendingPermissions" =>
        \A e \in lastOp.msg :
            /\ e.requestId \in pendingPermissions
            /\ e.fields \subseteq PendingPermissionFields

HasImage(content) ==
    content.kind = "blocks" /\ \E i \in 1..Len(content.blocks) : content.blocks[i].type = "image"

NoTextPart(content) ==
    /\ content.kind = "blocks"
    /\ \A i \in 1..Len(content.blocks) :
          content.blocks[i].type = "text" => content.blocks[i].text = <<>>

\* C17: a send() on an alive session of a block list that contains an image
\* block hands an error-kind event to onMessage.
C17_Step ==
    lastOp'.op = "send" /\ lastOp'.ok /\ HasImage(lastOp'.msg)
    => (outErr' > outErr \/ outErr = MaxOut)

C17_ImageIsNeverDropped == [][C17_Step]_vars

\* C18: a send() on an alive session of a block list with no non-empty text
\* part hands exactly one error-kind event to onMessage, issues no call and
\* leaves the identifiers and the turn state as they were.
C18_Step ==
    lastOp'.op = "send" /\ lastOp'.ok /\ NoTextPart(lastOp'.msg)
    => /\ outErr < MaxOut => outErr' = outErr + 1
       /\ calls' = calls
       /\ turnAbortController' = turnAbortController
       /\ sessionId' = sessionId
       /\ conversationId' = conversationId

C18_NoTextFailsFast == [][C18_Step]_vars

\* C19: once the session identifier (or the conversation identifier) is
\* non-empty, no step replaces it by another value.
C19_Step ==
    /\ sessionId # 0 => sessionId' = sessionId
    /\ conversationId # 0 => conversationId' = conversationId

C19_IdentifiersAreRetained == [][C19_Step]_vars

\* C20: when a call response returns, an identifier in its metadata is the
\* one the session holds afterwards, whatever the content items carry and
\* whatever the session held before; without one in the metadata the
\* top-level one is; the content items are looked at last.
C20_Step ==
    lastOp'.op = "callReturned" =>
    LET r == lastOp'.msg
    IN /\ r.meta.sid # 0 => sessionId' = r.meta.sid
       /\ r.meta.cid # 0 => conversationId' = r.meta.cid
       /\ r.meta.sid = 0 /\ r.top.sid # 0 => sessionId' = r.top.sid
       /\ r.meta.cid = 0 /\ r.top.cid # 0 => conversationId' = r.top.cid
       /\ r.meta.sid = 0 /\ r.top.sid = 0 /\ sessionId = 0 /\ r.items # <<>>
          => sessionId' = r.items[1].sid

C20_MetadataWins == [][C20_Step]_vars

\* a continue call issued under one identifier has returned with another one
\* in its metadata and a third value in a content item
C20_Witness ==
    /\ lastOp.op = "callReturned"
    /\ calls[lastOp.id].kind = "reply"
    /\ lastOp.msg.meta.sid # 0
    /\ calls[lastOp.id].sid \notin {0, lastOp.msg.meta.sid}
    /\ lastOp.msg.items # <<>>
    /\ lastOp.msg.items[1].sid \notin {0, lastOp.msg.meta.sid}
    /\ sessionId = lastOp.msg.meta.sid

\* C21: start() on a session that is alive changes nothing: the child
\* process and the connection, the registered callbacks, the pending
\* registry, the session identifier and the flags stay as they were.
C21_Step == lastOp'.op = "start" /\ alive => UNCHANGED varsButOp

C21_StartIsIdempotent == [][C21_Step]_vars

\* start() was called with other callbacks on a live session that has a
\* parked request, a session identifier and the approve-all flag set
C21_Witness ==
    /\ lastOp.op = "start"
    /\ alive
    /\ onMessage # 0
    /\ lastOp.id # onMessage
    /\ pendingPermissions # {}
    /\ sessionId # 0
    /\ autoApproveAll

\* the subprocess of the session has exited (or was never there)
SubprocessGone == child \in {"exited", "failed"} \/ transport = "closed"

\* C22: send() on a session that is not alive - never started, killed, or
\* whose subprocess has exited - fails with an error to the caller and
\* changes nothing: no frame is written, no call is issued.
C22_Step ==
    lastOp'.op = "send" /\ (~alive \/ SubprocessGone)
    => ~lastOp'.ok /\ UNCHANGED varsButOp

C22_SendNeedsLiveSession == [][C22_Step]_vars

\* the decision the policy is to take: never for an absent or empty input;
\* else always for a name of the allow-list; else, for the command action,
\* exactly for a command that is not blank and matches no danger pattern;
\* never for another name
PolicyReference(toolName, input) ==
    /\ input.kind \notin {"absent", "empty"}
    /\ \/ toolName \in SAFE_TOOLS
       \/ /\ toolName \in {"Bash", "bash"}
          /\ input.command # <<>>
          /\ ~DANGEROUS_BASH_PATTERNS(input.command)

\* C23: for every name and every input, shouldAutoApprove returns, and what
\* it returns is the reference decision.
C23_DecisionIsReference ==
    lastOp.op = "shouldAutoApprove"
    => lastOp.n = 0 /\ lastOp.ok = PolicyReference(lastOp.msg.tool, lastOp.msg.input)

\* the command line runs rm or sudo on an argument, or shutdown, as its first
\* command or right after a separator
RunsDestructive(cmd) ==
    \E i \in 1..Len(cmd) :
        /\ cmd[1] \notin {"&&", ";"}
        /\ \A j \in 1..(Len(cmd) - 1) : cmd[j] \in {"&&", ";"} => cmd[j + 1] \notin {"&&", ";"}
        /\ i = 1 \/ cmd[i - 1] \in {"&&", ";"}
        /\ \/ cmd[i] = "shutdown"
           \/ cmd[i] \in {"rm", "sudo"} /\ i < Len(cmd) /\ cmd[i + 1] \notin {"&&", ";"}

\* C24: a command line that runs a destructive or privileged operation, as
\* its first command or after a separator, is not auto-approved.
C24_DestructiveIsNeverApproved ==
    /\ lastOp.op = "shouldAutoApprove"
    /\ lastOp.msg.tool \in {"Bash", "bash"}
    /\ lastOp.msg.input.kind = "object"
    /\ lastOp.msg.input.commandIsString
    /\ RunsDestructive(lastOp.msg.input.command)
    => ~lastOp.ok

\* the request was read and handled
Handled(r) == reqInfo[r].tool # ""

\* C25: a request the policy does not auto-approve, whatever its name and
\* input, is parked and the caller is notified; it is not answered with an
\* error response.
C25_AmbiguityGoesInteractive ==
    \A r \in ReqIds :
        Handled(r) =>
            \/ cont[r] = "allowPolicy"
            \/ r \in notified /\ \A i \in 1..Len(frames[r]) : frames[r][i] # "error"

\* C26: a request for Write or Edit with a non-empty input is allowed by the
\* policy: it is not parked and the caller is not notified.
C26_WriteAndEditAreSafe ==
    \A r \in ReqIds :
        Handled(r) /\ reqInfo[r].tool \in {"Write", "Edit"} /\ reqInfo[r].input.kind = "object"
        => cont[r] = "allowPolicy" /\ r \notin notified

\* every live process object is the session of a chat, so a chat has at most
\* one live process
OnePerChat == \A q \in Procs : procs[q].alive => \E chat \in Chats : sessions[chat] = q

\* C27: a caller operation or a subprocess event of one session leaves the
\* fields of every other process object as they were; creating a session
\* for a chat leaves the chat's previous process not alive and touches no
\* third process; a chat never has two live processes.
C27_Step ==
    /\ lastOp'.op \in {"handleAllow", "handleDeny", "handleAllowAll", "request", "message",
                       "loopDetected", "close"}
       => \A q \in Procs \ {lastOp'.id} : procs'[q] = procs[q]
    /\ lastOp'.op \in {"createSession", "handleMessage"}
       => /\ sessions[lastOp'.n] \notin {0, lastOp'.id} => ~procs'[sessions[lastOp'.n]].alive
          /\ \A q \in Procs \ {lastOp'.id, sessions[lastOp'.n]} : procs'[q] = procs[q]
    /\ OnePerChat'

C27_SessionsAreIndependent == [][C27_Step]_vars

\* approve-all was given in one chat while the live session of another chat
\* has a parked request and its flag unset
C27_Witness ==
    /\ lastOp.op = "handleAllowAll"
    /\ lastOp.ok
    /\ \E q \in Procs \ {lastOp.id} :
          procs[q].alive /\ procs[q].pendingPermissions # {} /\ ~procs[q].autoApproveAll

\* the documented table; full-access is the protocol's danger-full-access
DocumentedModes ==
    {"default", "read-only", "safe-yolo", "yolo", "bypassPermissions", "acceptEdits", "plan"}

DocumentedPolicy ==
    [mode \in DocumentedModes |->
        IF mode \in {"default", "plan"} THEN "untrusted"
        ELSE IF mode = "read-only" THEN "never"
        ELSE IF mode = "acceptEdits" THEN "on-request"
        ELSE "on-failure"]

DocumentedSandbox ==
    [mode \in DocumentedModes |->
        IF mode = "read-only" THEN "read-only"
        ELSE IF mode \in {"yolo", "bypassPermissions"} THEN "danger-full-access"
        ELSE "workspace-write"]

\* C28: every start-conversation call carries the approval policy and the
\* sandbox the documented table gives for the session's permission mode.
C28_ModeMapping ==
    \A c \in CallIds :
        calls[c].kind = "start" /\ permissionMode \in DocumentedModes
        => /\ calls[c].policy = DocumentedPolicy[permissionMode]
           /\ calls[c].sandbox = DocumentedSandbox[permissionMode]

\* a start-conversation call is in flight on a session configured as yolo
C28_Witness ==
    /\ permissionMode = "yolo"
    /\ \E c \in CallIds : calls[c].kind = "start" /\ calls[c].state = "inflight"

\* C29: a parked approval request that receives no approve, no deny, no
\* cancellation and no kill is still eventually resolved and removed from
\* the registry of pending requests (a per-request timeout).
C29_ParkedIsEventuallyResolved ==
    \A r \in ReqIds : (r \in pendingPermissions) ~> (r \notin pendingPermissions)

\* C30: on the line-protocol backend the read loop runs independently of
\* approval waits: while a request is parked awaiting the caller, a frame
\* the subprocess emits afterwards is still read and routed (enqueued for
\* the caller, dispatched, or parked as a further pending request).
C30_FramesAreReadWhileParked ==
    (backend = "claude" /\ Parked(ReqIds) # {} /\ stdout # <<>>) => CanRead

\* C31: once a line-protocol session is terminated (kill() was called or
\* the subprocess exited), no handler of an interrupt request this side
\* issued is still registered awaiting its control response.
C31_TerminationCancelsOwnRequests ==
    (backend = "claude" /\ ~alive /\ (killCalled \/ child = "exited"))
        => pendingControlResponses = {}

\* C32: when an approval is cancelled because the subprocess has exited,
\* its rejection response is dropped: no control-response frame is written
\* to the input of a subprocess that has exited.
C32_Step == (backend = "claude" /\ child' = "exited") => frames' = frames

C32_NoFrameAfterExit == [][C32_Step]_vars

\* C33: content frames reach the caller in the order they were emitted, each
\* exactly once: the consumer takes the oldest queued message, leaves the
\* rest of the queue as it was, and forwards the message it took to the
\* caller's output callback.
C33_Step ==
    lastOp'.op = "consume" =>
        /\ lastOp'.msg = Head(inputStream.queue)
        /\ inputStream'.queue = Tail(inputStream.queue)
        /\ lastOp'.ok

C33_EveryMessageIsForwarded == [][C33_Step]_vars

\* C34: on the line-protocol backend, whenever no handler is running, the
\* request ids with a registered cancellation controller are exactly the
\* request ids in the pending registry.
C34_OneTokenPerPending ==
    backend = "claude" => cancelControllers = pendingPermissions

\* the caller decided the first request and the second is parked with its token
C34_Witness ==
    /\ backend = "claude"
    /\ cont[1] \in {"allow", "deny"}
    /\ pendingPermissions = {2}
    /\ cancelControllers = {2}

\* C35: the consecutive-failure counter always lies in 0..19 between
\* messages.  A user message with array content that holds no tool result,
\* or at least one tool result that is not an error, resets it to zero, and
\* so does every turn-result message; an all-error turn adds one, or resets
\* it on reaching the threshold; nothing else changes it.
NoResults(blocks) == \A i \in 1..Len(blocks) : blocks[i].type # "tool_result"

SomeSuccess(blocks) ==
    \E i \in 1..Len(blocks) : blocks[i].type = "tool_result" /\ ~blocks[i].is_error

C35_Step ==
    /\ consecutiveToolErrors' \in 0..(MAX_TOOL_ERROR_RETRIES - 1)
    /\ IF lastOp'.op = "consume"
       THEN LET msg == lastOp'.msg
                blocks == msg.content.blocks
            IN IF msg.type = "result"
               THEN consecutiveToolErrors' = 0
               ELSE IF msg.type = "user" /\ msg.content.kind = "array"
               THEN IF NoResults(blocks) \/ SomeSuccess(blocks)
                    THEN consecutiveToolErrors' = 0
                    ELSE consecutiveToolErrors' =
                            (consecutiveToolErrors + 1) % MAX_TOOL_ERROR_RETRIES
               ELSE consecutiveToolErrors' = consecutiveToolErrors
       ELSE consecutiveToolErrors' = consecutiveToolErrors

C35_CounterCountsUnbrokenRuns == [][C35_Step]_vars

\* after a detection, a run of all-error turns was broken by a turn with one
\* failed and one successful tool result
C35_Witness ==
    /\ lastOp.op = "consume"
    /\ lastOp.msg.type = "user"
    /\ lastOp.msg.content = ArrayTurn(<<ToolResult(TRUE), ToolResult(FALSE)>>)
    /\ loopNotifs = 1
    /\ consecutiveToolErrors = 0

\* C36: whenever a line-protocol session is not alive, because kill() was
\* called or the subprocess exited, its pending registry is empty; so no
\* request is parked, and none notified to the caller, after the teardown.
C36_NotAliveHasNoPending ==
    (backend = "claude" /\ ~alive /\ (killCalled \/ child = "exited"))
        => pendingPermissions = {}

\* C37: a line-protocol session that is alive with a running subprocess,
\* also one started again after a kill, is a working session: its consumer
\* loop is running over a queue that is not marked done, so that what the
\* subprocess writes is delivered to the caller.
C37_LiveSessionDelivers ==
    (backend = "claude" /\ alive /\ child = "running")
        => (consumer = "running" /\ ~inputStream.isDone)

\* C38: whenever the bridge records a pending question for a chat's live
\* session, the question's request id is pending in that session's agent
\* registry, so that the text taken as the answer resolves a request.
C38_RecordedQuestionIsPending ==
    \A chat \in Chats :
        (sessions[chat] # 0 /\ procs[sessions[chat]].alive
            /\ procs[sessions[chat]].pendingQuestion # 0)
        => procs[sessions[chat]].pendingQuestion \in procs[sessions[chat]].pendingPermissions

\* C39: the sub-mode selection is monotone in the reported version, ordered
\* by major, minor, patch, with a release above its alphas: a version selects
\* the older sub-mode (mcp) exactly when it is below 0.43.0-alpha.5, so every
\* version above one that selects mcp-server selects mcp-server too.
AlphaRank(v) == IF v.alpha = NoAlpha THEN MaxAlpha + 1 ELSE v.alpha

Below(v, w) ==
    \/ v.major < w.major
    \/ v.major = w.major /\ v.minor < w.minor
    \/ v.major = w.major /\ v.minor = w.minor /\ v.patch < w.patch
    \/ v.major = w.major /\ v.minor = w.minor /\ v.patch = w.patch
        /\ AlphaRank(v) < AlphaRank(w)

C39_SelectionIsMonotone ==
    (lastOp.op = "getCodexMcpSubcommand" /\ lastOp.msg.kind = "version") =>
        /\ ~lastOp.ok <=> Below(lastOp.msg.version, Version(0, THRESHOLD_MINOR, 0, THRESHOLD_ALPHA))
        /\ lastOp.ok =>
              \A w \in Versions :
                  Below(lastOp.msg.version, w)
                      => getCodexMcpSubcommand([kind |-> "version", version |-> w]) = "mcp-server"

=============================================================================
